---- MODULE Spec2Model ----
(***************************************************************************)
(* Model of the geemap front-end widgets (js/inspector.ts, js/layer_editor, *)
(* js/container): the hand-written binding of a Lit view to an anywidget    *)
(* model (key map, `set model`, change callbacks, `updated`), and the       *)
(* custom-message command/response protocol of the layer editor; the       *)
(* inspector's tree of TreeNode elements; and the child views the layer     *)
(* editor's render() keeps in step with "children" (updateChildren).        *)
(*                                                                         *)
(* One view instance is modelled.  Its class is chosen in Init.  The remote *)
(* side is two Backbone models M1 and M2 whose attributes the kernel may    *)
(* change and on which the kernel may send custom messages.                 *)
(***************************************************************************)
EXTENDS Naturals, Sequences, FiniteSets

VARIABLES
    widget,             \* class of the view: "Inspector", "LayerEditor", "Container"
    attrs,              \* attrs[m][f]: attribute f of Backbone model m (model.get)
    listeners,          \* listeners[m][e]: callbacks this view registered with m.on(e)
    model,              \* this._model ("undefined" until the setter runs)
    view,               \* view[p]: reactive property p of the view
    changedProperties,  \* Lit's pending changedProperties map (its keys, in insertion order)
    origin,             \* per pending property: who made the pending change
    connected,          \* the element is in the document (Lit updates are enabled)
    hasUpdated,         \* the first render has completed (the child editors exist)
    stretch,            \* RasterLayerEditor.stretch
    minValue,           \* RasterLayerEditor.minValue
    maxValue,           \* RasterLayerEditor.maxValue
    minAndMaxValuesLocked, \* RasterLayerEditor.minAndMaxValuesLocked
    palette,            \* PaletteEditor.palette
    colormap,           \* PaletteEditor.colormap
    classes,            \* PaletteEditor.classes
    colorModel,         \* RasterLayerEditor.colorModel
    selectedBands,      \* RasterLayerEditor.selectedBands
    inflight,           \* palette commands sent to the kernel and not yet answered
    requested,          \* the band-stats command the kernel received last
    opacity,            \* RasterLayerEditor.opacity
    gamma,              \* RasterLayerEditor.gamma
    colorRamp,          \* RasterLayerEditor.colorRamp
    shown,              \* what the three controls of the earlier PaletteEditor
                        \* show, whose handlers store the value elsewhere
    nodeData,           \* Inspector.pointInfo: the tree of Node objects shown
    treeExpanded,       \* treeExpanded[path]: TreeNode.expanded of the element at path
    touched,            \* elements whose expanded flag a click set last (history)
    lastToggle,         \* the element toggled by the last step, its flag and the
                        \* flags of the elements below it before the step
    watching,           \* the model whose change:children render() listens to
    pending,            \* updateChildren calls awaiting their views: the
                        \* value of "children" each has read
    container,          \* the children whose views the widget element holds
    detached,           \* the host has discarded the view (its element was removed)
    calls,              \* calls made on model handles by the last step, in order
    last,               \* the last step taken
    count               \* how many steps of each bounded kind were taken

vars == <<widget, attrs, listeners, model, view, changedProperties, origin,
          connected, hasUpdated, stretch, minValue, maxValue,
          minAndMaxValuesLocked, palette, colormap, classes, colorModel,
          selectedBands, inflight, requested, opacity, gamma, colorRamp, shown, nodeData, treeExpanded, touched,
          lastToggle, watching, pending, container, detached, calls, last, count>>

\* The raster editor's display settings.
displayVars == <<opacity, gamma, colorRamp>>

\* The tree of the inspector and the child views of the layer editor.
treeVars == <<nodeData, treeExpanded, touched, lastToggle>>

childVars == <<watching, pending, container>>

domVars == <<treeVars, childVars, shown>>

\* The palette editor's own selections, the raster editor's band selection and
\* the palette commands under way.
selectionVars == <<colormap, classes, colorModel, selectedBands, inflight>>

rasterVars == <<stretch, minValue, maxValue, minAndMaxValuesLocked, palette,
                selectionVars>>

----------------------------------------------------------------------------
(* Bounds of the exploration *)

MaxAttach == 2      \* runs of the `model` setter
MaxRemote == 2      \* attribute changes made by the kernel
MaxEdit == 1        \* property changes made by user interaction
MaxStretch == 2     \* stretch selections
MaxReply == 2       \* inbound custom messages
MaxSelect == 2      \* colour-model and band selections
MaxPaletteEdit == 2 \* changes made in the palette editor
MaxPush == 2        \* values the kernel pushes for the inspector's tree

----------------------------------------------------------------------------
(* Values *)

Models == {"M1", "M2"}
Widgets == {"Inspector", "LayerEditor", "Container"}

\* Attribute and property values are opaque to the binding: two distinct ones.
Val == {"v0", "v1"}
\* The value every reactive property is declared with.
DefaultVal == "v0"

Null == "null"
Undefined == "undefined"
NaN == "NaN"
MsgCustomEvent == "msg:custom"

Range(s) == {s[i] : i \in 1..Len(s)}

\* The attributes the kernel changes in the explored runs: per view class one
\* that a control of the view also writes (where there is one), one that only
\* the kernel writes, and the layer editor's unmirrored "children".
KernelKeys(w) ==
    CASE w = "Inspector" -> {"expand_points", "point_info"}
      [] w = "LayerEditor" -> {"title", "band_names", "children"}
      [] w = "Container" -> {"collapsed", "title"}

----------------------------------------------------------------------------
(* Key maps *)

\* Key maps in which the layer editor mirrors "type" into title as well.
ModelNameToViewNameTitleTwice(w) ==
    CASE w = "Inspector" ->
            << <<"hide_close_button", "hideCloseButton">>,
               <<"expand_points", "expandPoints">>,
               <<"expand_pixels", "expandPixels">>,
               <<"expand_objects", "expandObjects">>,
               <<"point_info", "pointInfo">>,
               <<"pixel_info", "pixelInfo">>,
               <<"object_info", "objectInfo">> >>
      [] w = "LayerEditor" ->
            << <<"title", "title">>,
               <<"type", "title">>,
               <<"band_names", "bandNames">>,
               <<"colormaps", "colormaps">>,
               <<"children", Null>> >>
      [] w = "Container" ->
            << <<"collapsed", "collapsed">>,
               <<"title", "title">>,
               <<"hide_close_button", "hideCloseButton">> >>

\* static modelNameToViewName of the three views, in declaration order.
ModelNameToViewName(w) ==
    CASE w = "Inspector" ->
            << <<"hide_close_button", "hideCloseButton">>,
               <<"expand_points", "expandPoints">>,
               <<"expand_pixels", "expandPixels">>,
               <<"expand_objects", "expandObjects">>,
               <<"point_info", "pointInfo">>,
               <<"pixel_info", "pixelInfo">>,
               <<"object_info", "objectInfo">> >>
      [] w = "LayerEditor" ->
            << <<"title", "title">>,
               <<"type", "type">>,
               <<"band_names", "bandNames">>,
               <<"colormaps", "colormaps">>,
               <<"children", Null>> >>
      [] w = "Container" ->
            << <<"collapsed", "collapsed">>,
               <<"title", "title">>,
               <<"hide_close_button", "hideCloseButton">> >>

\* modelNameToViewName() of the Container that extends LitWidget, and the
\* layer editor's map before "children" was added.
LitContainerModelNameToViewName ==
    << <<"icon", "icon">>,
       <<"collapsed", "collapsed">>,
       <<"title", "title">>,
       <<"hide_close_button", "hideCloseButton">> >>

EarlierLayerEditorModelNameToViewName ==
    << <<"title", "title">>,
       <<"type", "type">>,
       <<"band_names", "bandNames">>,
       <<"colormaps", "colormaps">> >>

\* reverseMap(modelNameToViewName): every entry swapped, the null one included.
ReverseMap(km) ==
    [p \in {km[i][2] : i \in 1..Len(km)} |->
        km[CHOOSE i \in 1..Len(km) :
              /\ km[i][2] = p
              /\ \A j \in 1..Len(km) : km[j][2] = p => j <= i][1]]

ViewNameToModelName(w) == ReverseMap(ModelNameToViewName(w))

ModelKeys(w) == {ModelNameToViewName(w)[i][1] : i \in 1..Len(ModelNameToViewName(w))}

\* The @property() fields of the view class, in declaration order.
Properties(w) ==
    CASE w = "Inspector" ->
            <<"hideCloseButton", "expandPoints", "expandPixels", "expandObjects",
              "pointInfo", "pixelInfo", "objectInfo">>
      [] w = "LayerEditor" -> <<"title", "type", "bandNames", "colormaps">>
      [] w = "Container" -> <<"title", "collapsed", "hideCloseButton">>

\* The local property a model key is mapped to (Map.get).
WidgetKeyOf(w, modelKey) ==
    LET km == ModelNameToViewName(w)
    IN km[CHOOSE i \in 1..Len(km) : km[i][1] = modelKey][2]

----------------------------------------------------------------------------
(* The view's reactive properties and the Backbone model *)

\* The working state threaded through one handler: the model attributes, the
\* view's properties, Lit's changedProperties, the calls made so far and the
\* number of change callbacks that ran.
Work(a, v, c, o) ==
    [attrs |-> a, view |-> v, changed |-> c, origin |-> o, calls |-> <<>>, runs |-> 0]

\* An accessor without the hasChanged test: every write requests an update.
SetPropertyEveryWrite(s, p, v, who) ==
    [s EXCEPT !.view[p] = v,
              !.changed = IF p \in Range(@) THEN @ ELSE Append(@, p),
              !.origin[p] = who]

\* Lit's property accessor: a write of a different value (hasChanged) stores
\* it and records the property in changedProperties, which requests an update.
SetProperty(s, p, v, who) ==
    IF s.view[p] = v
    THEN s
    ELSE [s EXCEPT !.view[p] = v,
                   !.changed = IF p \in Range(@) THEN @ ELSE Append(@, p),
                   !.origin[p] = who]

\* A callback that leaves the view as it is.
ChangeCallbackIgnoresChange(s, w, m, modelKey) == [s EXCEPT !.runs = @ + 1]

\* A callback that also shows the value it read as the title.
ChangeCallbackAlsoTitle(s, w, m, modelKey) ==
    [SetProperty(SetProperty(s, WidgetKeyOf(w, modelKey), s.attrs[m][modelKey], "remote"),
                 "title", s.attrs[m][modelKey], "remote")
        EXCEPT !.runs = @ + 1]

\* A callback that reads this._model instead of the model it was registered on.
ChangeCallbackReadsCurrentModel(s, w, m, modelKey) ==
    [SetProperty(s, WidgetKeyOf(w, modelKey), s.attrs[model][modelKey], "remote")
        EXCEPT !.runs = @ + 1]

\* The closure registered by `set model`:
\*     () => { this[widgetKey] = model.get(modelKey); }
ChangeCallback(s, w, m, modelKey) ==
    [SetProperty(s, WidgetKeyOf(w, modelKey), s.attrs[m][modelKey], "remote")
        EXCEPT !.runs = @ + 1]

\* Backbone's trigger("change:" + modelKey): every registered callback runs.
RECURSIVE Trigger(_, _, _, _, _)
Trigger(s, w, m, modelKey, n) ==
    IF n = 0 THEN s
    ELSE Trigger(ChangeCallback(s, w, m, modelKey), w, m, modelKey, n - 1)

\* The detail object of a command sent with model.send; a set or save_changes
\* call carries none.
NoDetail ==
    [bands |-> <<>>, stretch |-> Undefined, colormap |-> Undefined,
     classes |-> Undefined, palette |-> Undefined,
     bandMin |-> Undefined, bandMax |-> Undefined]

\* Backbone's model.set(key, value), called by the view: the call is made; an
\* equal value changes nothing, a different one is stored and fires change:key.
ModelSet(s, w, m, key, v) ==
    LET logged == [s EXCEPT !.calls = Append(@, [op |-> "set", model |-> m,
                                                  key |-> key, value |-> v,
                                                  detail |-> NoDetail])]
    IN IF s.attrs[m][key] = v
       THEN logged
       ELSE Trigger([logged EXCEPT !.attrs[m][key] = v], w, m, key,
                    listeners[m][key])

\* No band-stats command has reached the kernel.
NoRequest == [model |-> Undefined, bands |-> <<>>, stretch |-> Undefined]

\* An inbound message: its "bandstats" and "palette" keys, if it has them.  The
\* palette part also records the colormap and classes of the command it
\* answers, and `request` the band-stats command it answers, which no handler
\* reads.
NoMsg == [request |-> NoRequest,
          hasBandstats |-> FALSE,
          bandstats |-> [stretch |-> Undefined, min |-> Undefined, max |-> Undefined],
          hasPalette |-> FALSE,
          palette |-> [palette |-> "", colormap |-> Undefined, classes |-> Undefined]]

\* The record of a step: what ran, on which model and key, how many callbacks
\* or handlers ran, the batch an update handled (and which of its properties a
\* change callback, respectively a control of the view, had written), the
\* inbound message, the range shown before it arrived, the handlers the
\* message was dispatched to, and whether a handler threw.
Step(kind, m, key) ==
    [kind |-> kind, model |-> m, key |-> key, runs |-> 0, batch |-> <<>>,
     remote |-> {}, user |-> {}, msg |-> NoMsg,
     before |-> <<Undefined, Undefined>>, handled |-> <<>>, threw |-> FALSE]

NoOrigin(w) == [p \in Range(Properties(w)) |-> "none"]

----------------------------------------------------------------------------
(* Construction *)

InitWith(cm) ==
    /\ widget \in Widgets
    /\ attrs = [m \in Models |->
                  [f \in ModelKeys(widget) |-> IF m = "M1" THEN "v1" ELSE "v0"]]
    /\ listeners = [m \in Models |->
                      [e \in ModelKeys(widget) \cup {MsgCustomEvent} |-> 0]]
    /\ model = Undefined
    /\ view = [p \in Range(Properties(widget)) |-> DefaultVal]
    /\ changedProperties = Properties(widget)
    /\ origin = [p \in Range(Properties(widget)) |-> "init"]
    /\ connected = FALSE
    /\ hasUpdated = FALSE
    /\ stretch = "custom"
    /\ minValue = Undefined
    /\ maxValue = Undefined
    /\ minAndMaxValuesLocked = FALSE
    /\ palette = ""
    /\ colormap = cm
    /\ classes = "any"
    /\ colorModel = ""
    /\ selectedBands = <<>>
    /\ inflight = {}
    /\ requested = NoRequest
    /\ opacity = Undefined
    /\ gamma = Undefined
    /\ colorRamp = ""
    /\ shown = [classes |-> "any", colormap |-> "", palette |-> ""]
    /\ nodeData = [paths |-> {<<>>}, flag |-> [p \in {<<>>} |-> "none"]]
    /\ treeExpanded = [p \in {} |-> FALSE]
    /\ touched = {}
    /\ lastToggle = [path |-> <<>>, before |-> FALSE, again |-> FALSE,
                     below |-> [p \in {} |-> FALSE]]
    /\ watching = Undefined
    /\ pending = <<>>
    /\ container = <<>>
    /\ detached = FALSE
    /\ calls = <<>>
    /\ last = Step("init", Undefined, "")
    /\ count = [attach |-> 0, remote |-> 0, edit |-> 0, stretch |-> 0, reply |-> 0,
                select |-> 0, paletteEdit |-> 0, push |-> 0]

\* PaletteEditor.colormap starts as "Custom".
Init == InitWith("Custom")

\* Lit runs a requested update as a microtask: once the element is connected,
\* a pending update runs before the next event is handled.
UpdatePending == connected /\ Len(changedProperties) > 0

----------------------------------------------------------------------------
(* set model(model) *)

\* A setter that subscribes without reading the initial values.
SetModelLoopWithoutInitialRead(s, w, m, i) == s

\* The setter's loop from the i-th key-map entry on: the initial read
\*     this[widgetKey] = model.get(modelKey)
\* The Container's loop has no `if (widgetKey)` test (its map has no null).
RECURSIVE SetModelLoop(_, _, _, _)
SetModelLoop(s, w, m, i) ==
    LET km == ModelNameToViewName(w)
    IN IF i > Len(km) THEN s
       ELSE IF w = "Container" \/ km[i][2] # Null
            THEN SetModelLoop(
                    SetProperty(s, km[i][2], s.attrs[m][km[i][1]], "attach"),
                    w, m, i + 1)
            ELSE SetModelLoop(s, w, m, i + 1)

\* A setter that subscribes outside the `if (widgetKey)` test: the null entry
\* gets a callback too.
SubscribeEveryEntry(lis, w, m) ==
    [lis EXCEPT ![m] =
        [e \in DOMAIN @ |-> IF e \in ModelKeys(w) THEN @[e] + 1 ELSE @[e]]]

\* The setter's model.on(`change:${modelKey}`, ...) of every entry it handles.
Subscribe(lis, w, m) ==
    [lis EXCEPT ![m] =
        [e \in DOMAIN @ |->
            IF e \in ModelKeys(w) /\ (w = "Container" \/ WidgetKeyOf(w, e) # Null)
            THEN @[e] + 1
            ELSE @[e]]]

\* LayerEditor.registerCustomMessageHandlers: this._model?.on("msg:custom", ...)
RegisterCustomMessageHandlers(lis, m) ==
    IF m = Undefined THEN lis
    ELSE [lis EXCEPT ![m][MsgCustomEvent] = @ + 1]

\* set model(model) of Inspector, LayerEditor and Container.
SetModel(m) ==
    /\ count.attach < MaxAttach
    /\ ~UpdatePending
    /\ LET s == SetModelLoop(Work(attrs, view, changedProperties, origin), widget, m, 1)
       IN /\ model' = m
          /\ view' = s.view
          /\ changedProperties' = s.changed
          /\ origin' = s.origin
          /\ listeners' = IF widget = "LayerEditor"
                          THEN RegisterCustomMessageHandlers(Subscribe(listeners, widget, m), m)
                          ELSE Subscribe(listeners, widget, m)
          /\ calls' = s.calls
          /\ last' = Step("attach", m, "")
    /\ count' = [count EXCEPT !.attach = @ + 1]
    /\ UNCHANGED <<widget, detached, domVars, requested, displayVars, attrs, connected, hasUpdated, rasterVars>>

----------------------------------------------------------------------------
(* The document and the kernel *)

\* render(): el.appendChild(widget).  Lit's connectedCallback enables updates.
Connect ==
    /\ ~connected
    /\ connected' = TRUE
    /\ calls' = <<>>
    /\ last' = Step("connect", Undefined, "")
    /\ UNCHANGED <<widget, detached, domVars, requested, displayVars, attrs, listeners, model, view, changedProperties, origin,
                   hasUpdated, rasterVars, count>>

\* The kernel changes attribute modelKey of model m: Backbone stores the value
\* and fires change:modelKey, which runs the callbacks the view registered.
RemoteChange(m, modelKey, v) ==
    /\ count.remote < MaxRemote
    /\ ~UpdatePending
    /\ attrs[m][modelKey] # v
    /\ LET s == Trigger(Work([attrs EXCEPT ![m][modelKey] = v], view,
                             changedProperties, origin),
                        widget, m, modelKey, listeners[m][modelKey])
       IN /\ attrs' = s.attrs
          /\ view' = s.view
          /\ changedProperties' = s.changed
          /\ origin' = s.origin
          /\ calls' = s.calls
          /\ last' = [Step("remote", m, modelKey) EXCEPT !.runs = s.runs]
    /\ count' = [count EXCEPT !.remote = @ + 1]
    /\ UNCHANGED <<widget, detached, domVars, requested, displayVars, listeners, model, connected, hasUpdated, rasterVars>>

----------------------------------------------------------------------------
(* User interaction with the view's own controls *)

\* Properties a handler of the view writes: the Inspector's three checkboxes
\* (onPointCheckboxEvent, onPixelCheckboxEvent, onFeatureCheckboxEvent) and the
\* Container's collapse button (onCollapseToggled).
Editable(w) ==
    CASE w = "Inspector" -> {"expandPoints", "expandPixels", "expandObjects"}
      [] w = "LayerEditor" -> {}
      [] w = "Container" -> {"collapsed"}

\* this.expandPoints = target.checked;  this.collapsed = !this.collapsed;
UserEdit(p, v) ==
    /\ count.edit < MaxEdit
    /\ ~UpdatePending
    /\ hasUpdated
    /\ p \in Editable(widget)
    /\ widget = "Container" => v # view[p]
    /\ LET s == SetProperty(Work(attrs, view, changedProperties, origin), p, v, "user")
       IN /\ view' = s.view
          /\ changedProperties' = s.changed
          /\ origin' = s.origin
          /\ calls' = s.calls
    /\ last' = Step("edit", Undefined, p)
    /\ count' = [count EXCEPT !.edit = @ + 1]
    /\ UNCHANGED <<widget, detached, domVars, requested, displayVars, attrs, listeners, model, connected, hasUpdated, rasterVars>>

----------------------------------------------------------------------------
(* updated(changedProperties) *)

\* A loop whose has() test is inverted: no mapped property is pushed.
UpdatedLoopInvertedTest(s, w, mdl, batch, i) == s

\* The loop of updated() from the i-th changed property on:
\*     if (viewNameToModelName.has(viewProp))
\*         this._model?.set(viewNameToModelName.get(viewProp), this[viewProp]);
RECURSIVE UpdatedLoop(_, _, _, _, _)
UpdatedLoop(s, w, mdl, batch, i) ==
    IF i > Len(batch) THEN s
    ELSE LET p == batch[i]
             inv == ViewNameToModelName(w)
         IN IF p \in DOMAIN inv /\ mdl # Undefined
            THEN UpdatedLoop(ModelSet(s, w, mdl, inv[p], s.view[p]), w, mdl, batch, i + 1)
            ELSE UpdatedLoop(s, w, mdl, batch, i + 1)

\* An updated() that saves before it sets.
UpdatedSavesFirst(s, w, mdl, batch) ==
    UpdatedLoop([s EXCEPT !.calls = Append(@, [op |-> "flush", model |-> mdl,
                                              key |-> "", value |-> "",
                                              detail |-> NoDetail])],
                w, mdl, batch, 1)

\* updated(): the loop, then this._model?.save_changes().
Updated(s, w, mdl, batch) ==
    LET t == UpdatedLoop(s, w, mdl, batch, 1)
    IN IF mdl = Undefined THEN t
       ELSE [t EXCEPT !.calls = Append(@, [op |-> "flush", model |-> mdl,
                                            key |-> "", value |-> "",
                                            detail |-> NoDetail])]

\* Lit's update cycle: changedProperties is handed to updated() and a fresh,
\* empty map collects what changes from then on.
Update ==
    /\ UpdatePending
    /\ LET s == Updated(Work(attrs, view, <<>>, NoOrigin(widget)), widget, model,
                        changedProperties)
       IN /\ attrs' = s.attrs
          /\ view' = s.view
          /\ changedProperties' = s.changed
          /\ origin' = s.origin
          /\ calls' = s.calls
          /\ last' = [Step("update", model, "") EXCEPT
                        !.runs = s.runs,
                        !.batch = changedProperties,
                        !.remote = {p \in Range(changedProperties) : origin[p] = "remote"},
                        !.user = {p \in Range(changedProperties) : origin[p] = "user"}]
    /\ hasUpdated' = TRUE
    /\ UNCHANGED <<widget, detached, domVars, requested, displayVars, listeners, model, connected, rasterVars, count>>

----------------------------------------------------------------------------
(* RasterLayerEditor *)

\* The values of stretchOptions.
StretchValues ==
    {"custom", "sigma-1", "sigma-2", "sigma-3", "percent-90", "percent-98", "percent-100"}

\* A listener that asks for statistics only when the range is computed, not
\* for "custom".
CalculateBandStatsUnlessCustom(mdl, s) ==
    IF mdl = Undefined \/ s = "custom" THEN <<>>
    ELSE <<[op |-> "send", model |-> mdl, key |-> "band-stats", value |-> s,
            detail |-> [NoDetail EXCEPT !.bands = selectedBands, !.stretch = s]]>>

\* LayerEditor.calculateBandStats, the listener of calculate-band-stats:
\*     this._model?.send({type: "calculate", id: "band-stats",
\*                        detail: {bands: rasterEditor.selectedBands,
\*                                 stretch: rasterEditor.stretch}})
CalculateBandStats(mdl, s) ==
    IF mdl = Undefined THEN <<>>
    ELSE <<[op |-> "send", model |-> mdl, key |-> "band-stats", value |-> s,
            detail |-> [NoDetail EXCEPT !.bands = selectedBands, !.stretch = s]]>>

\* A handler that clears the range for "custom" as well.
OnStretchChangedAlwaysClears(s) ==
    /\ count.stretch < MaxStretch
    /\ ~UpdatePending
    /\ widget = "LayerEditor"
    /\ hasUpdated
    /\ stretch' = s
    /\ minAndMaxValuesLocked' = (s # "custom")
    /\ minValue' = Undefined
    /\ maxValue' = Undefined
    /\ calls' = CalculateBandStats(model, s)
    /\ last' = Step("stretch", model, s)
    /\ count' = [count EXCEPT !.stretch = @ + 1]
    /\ UNCHANGED <<widget, detached, domVars, requested, displayVars, attrs, listeners,
                   model, view, changedProperties, origin, connected, hasUpdated,
                   palette, selectionVars>>

\* A handler that locks the range whatever the selection.
OnStretchChangedAlwaysLocks(s) ==
    /\ count.stretch < MaxStretch
    /\ ~UpdatePending
    /\ widget = "LayerEditor"
    /\ hasUpdated
    /\ stretch' = s
    /\ minAndMaxValuesLocked' = TRUE
    /\ minValue' = Undefined
    /\ maxValue' = Undefined
    /\ calls' = CalculateBandStats(model, s)
    /\ last' = Step("stretch", model, s)
    /\ count' = [count EXCEPT !.stretch = @ + 1]
    /\ UNCHANGED <<widget, detached, domVars, requested, displayVars, attrs, listeners, model, view,
                   changedProperties, origin, connected, hasUpdated, palette,
                   selectionVars>>

\* A handler that locks the range but keeps the values it shows.
OnStretchChangedKeepsRange(s) ==
    /\ count.stretch < MaxStretch
    /\ ~UpdatePending
    /\ widget = "LayerEditor"
    /\ hasUpdated
    /\ stretch' = s
    /\ minAndMaxValuesLocked' = (s # "custom")
    /\ calls' = CalculateBandStats(model, s)
    /\ last' = Step("stretch", model, s)
    /\ count' = [count EXCEPT !.stretch = @ + 1]
    /\ UNCHANGED <<widget, detached, domVars, requested, displayVars, attrs, listeners, model, view,
                   changedProperties, origin, connected, hasUpdated, minValue, maxValue,
                   palette, selectionVars>>

\* RasterLayerEditor.onStretchChanged: the selection is stored, the range is
\* unlocked for "custom" and otherwise locked and cleared, and the
\* calculate-band-stats event is dispatched (its listener runs synchronously).
OnStretchChanged(s) ==
    /\ count.stretch < MaxStretch
    /\ ~UpdatePending
    /\ widget = "LayerEditor"
    /\ hasUpdated
    /\ stretch' = s
    /\ IF s = "custom"
       THEN /\ minAndMaxValuesLocked' = FALSE
            /\ UNCHANGED <<minValue, maxValue>>
       ELSE /\ minAndMaxValuesLocked' = TRUE
            /\ minValue' = Undefined
            /\ maxValue' = Undefined
    /\ calls' = CalculateBandStats(model, s)
    /\ last' = Step("stretch", model, s)
    /\ count' = [count EXCEPT !.stretch = @ + 1]
    /\ UNCHANGED <<widget, detached, domVars, requested, displayVars, attrs, listeners, model, view, changedProperties, origin,
                   connected, hasUpdated, palette, selectionVars>>

\* RasterLayerEditor.onMinTextChanged: this.minValue = target.valueAsNumber,
\* which is NaN for an <input type="text">.  The input is disabled while the
\* range is locked.
OnMinTextChanged ==
    /\ count.edit < MaxEdit
    /\ ~UpdatePending
    /\ widget = "LayerEditor"
    /\ hasUpdated
    /\ ~minAndMaxValuesLocked
    /\ minValue' = NaN
    /\ calls' = <<>>
    /\ last' = Step("min-text", Undefined, "")
    /\ count' = [count EXCEPT !.edit = @ + 1]
    /\ UNCHANGED <<widget, detached, domVars, requested, displayVars, attrs, listeners, model, view, changedProperties, origin,
                   connected, hasUpdated, stretch, maxValue, minAndMaxValuesLocked,
                   palette, selectionVars>>

\* RasterLayerEditor.onMaxTextChanged
OnMaxTextChanged ==
    /\ count.edit < MaxEdit
    /\ ~UpdatePending
    /\ widget = "LayerEditor"
    /\ hasUpdated
    /\ ~minAndMaxValuesLocked
    /\ maxValue' = NaN
    /\ calls' = <<>>
    /\ last' = Step("max-text", Undefined, "")
    /\ count' = [count EXCEPT !.edit = @ + 1]
    /\ UNCHANGED <<widget, detached, domVars, requested, displayVars, attrs, listeners, model, view, changedProperties, origin,
                   connected, hasUpdated, stretch, minValue, minAndMaxValuesLocked,
                   palette, selectionVars>>

----------------------------------------------------------------------------
(* The raster editor's display settings *)

\* A position of the opacity slider (0 to 1) and one of the gamma slider
\* (0.1 to 10), each other than the initial undefined.
OpacityValues == {"0.5"}
GammaValues == {"2"}
ColorRamps == {"palette", "gamma"}

\* RasterLayerEditor.showGammaSlider
ShowGammaSlider == colorRamp = "gamma" \/ colorModel = "rgb"

\* RasterLayerEditor.onOpacityChanged: this.opacity = target.valueAsNumber
OnOpacityChanged(v) ==
    /\ count.edit < MaxEdit
    /\ ~UpdatePending
    /\ widget = "LayerEditor"
    /\ hasUpdated
    /\ opacity' = v
    /\ calls' = <<>>
    /\ last' = Step("opacity", Undefined, v)
    /\ count' = [count EXCEPT !.edit = @ + 1]
    /\ UNCHANGED <<widget, detached, domVars, requested, gamma, colorRamp, attrs,
                   listeners, model, view, changedProperties, origin, connected,
                   hasUpdated, rasterVars>>

\* RasterLayerEditor.onGammaChanged: this.gamma = target.valueAsNumber.  The
\* slider is hidden unless showGammaSlider().
OnGammaChanged(v) ==
    /\ count.edit < MaxEdit
    /\ ~UpdatePending
    /\ widget = "LayerEditor"
    /\ hasUpdated
    /\ ShowGammaSlider
    /\ gamma' = v
    /\ calls' = <<>>
    /\ last' = Step("gamma", Undefined, v)
    /\ count' = [count EXCEPT !.edit = @ + 1]
    /\ UNCHANGED <<widget, detached, domVars, requested, opacity, colorRamp, attrs,
                   listeners, model, view, changedProperties, origin, connected,
                   hasUpdated, rasterVars>>

\* RasterLayerEditor.onColorRampChanged: this.colorRamp = target.value.  The
\* two radio buttons are hidden unless colorModel is "gray".
OnColorRampChanged(r) ==
    /\ count.select < MaxSelect
    /\ ~UpdatePending
    /\ widget = "LayerEditor"
    /\ hasUpdated
    /\ colorModel = "gray"
    /\ colorRamp' = r
    /\ calls' = <<>>
    /\ last' = Step("color-ramp", Undefined, r)
    /\ count' = [count EXCEPT !.select = @ + 1]
    /\ UNCHANGED <<widget, detached, domVars, requested, opacity, gamma, attrs,
                   listeners, model, view, changedProperties, origin, connected,
                   hasUpdated, rasterVars>>

----------------------------------------------------------------------------
(* Inbound custom messages *)

\* The band-stats results the kernel replies with.
Ranges == {<<"0", "255">>, <<"10", "200">>}

Bandstats(s, r) == [stretch |-> s, min |-> r[1], max |-> r[2]]

\* The stretch contexts the kernel's replies carry.
ReplyStretches == {"custom", "sigma-1", "sigma-2"}

BandstatsMessages ==
    {[NoMsg EXCEPT !.hasBandstats = TRUE, !.bandstats = Bandstats(s, r)] :
        s \in ReplyStretches, r \in Ranges}

PaletteMessages ==
    {[NoMsg EXCEPT !.hasPalette = TRUE, !.palette.palette = p] :
        p \in {"", "viridis"}}

\* The messages the kernel sends: a band-stats reply, a palette reply, a
\* message with both keys, and one with neither.
InboundMessages ==
    BandstatsMessages \cup PaletteMessages
        \cup {[NoMsg EXCEPT !.hasBandstats = TRUE,
                            !.bandstats = Bandstats("custom", <<"0", "255">>),
                            !.hasPalette = TRUE,
                            !.palette.palette = "viridis"],
              NoMsg}

\* The raster editor's state a message handler works on.
Editor(mn, mx, pal) ==
    [minValue |-> mn, maxValue |-> mx, palette |-> pal, runs |-> 0,
     handled |-> <<>>, threw |-> FALSE]

\* A handler without the stretch comparison: every reply is applied.
HandleBandstatsResponseUnfiltered(e, response) ==
    IF hasUpdated
    THEN [e EXCEPT !.minValue = response.bandstats.min,
                   !.maxValue = response.bandstats.max]
    ELSE e

\* A handler that also compares the bands the statistics were computed for.
HandleBandstatsResponseForSelectedBands(e, response) ==
    IF hasUpdated
    THEN IF response.bandstats.stretch = stretch
            /\ response.request.bands = selectedBands
         THEN [e EXCEPT !.minValue = response.bandstats.min,
                        !.maxValue = response.bandstats.max]
         ELSE e
    ELSE e

\* A handler that forgets the upper end of the range.
HandleBandstatsResponseMinOnly(e, response) ==
    IF hasUpdated /\ response.bandstats.stretch = stretch
    THEN [e EXCEPT !.minValue = response.bandstats.min]
    ELSE e

\* A handler that fills the range once and keeps it: only the first matching
\* reply after the range was cleared is applied.
HandleBandstatsResponseFirstOnly(e, response) ==
    IF hasUpdated /\ response.bandstats.stretch = stretch /\ e.minValue = Undefined
    THEN [e EXCEPT !.minValue = response.bandstats.min,
                   !.maxValue = response.bandstats.max]
    ELSE e

\* LayerEditor.handleBandstatsResponse
HandleBandstatsResponse(e, response) ==
    IF hasUpdated
    THEN IF response.bandstats.stretch = stretch
         THEN [e EXCEPT !.minValue = response.bandstats.min,
                        !.maxValue = response.bandstats.max]
         ELSE e
    ELSE e

\* A handler without the test of response.palette.palette.
HandlePaletteResponseUntested(e, response) ==
    IF hasUpdated
    THEN [e EXCEPT !.palette = response.palette.palette]
    ELSE [e EXCEPT !.threw = TRUE]

\* LayerEditor.handlePaletteResponse: the palette editor is looked up through
\* rasterEditor?.renderRoot and written without a test, which throws a
\* TypeError when it is absent.
HandlePaletteResponse(e, response) ==
    IF response.palette.palette # ""
    THEN IF hasUpdated
         THEN [e EXCEPT !.palette = response.palette.palette]
         ELSE [e EXCEPT !.threw = TRUE]
    ELSE e

\* A callback whose last branch is a plain else: a message without "bandstats"
\* goes to the palette handler, which reads msg.palette.palette of undefined.
OnMsgCustomElsePalette(e, msg) ==
    LET ran == [e EXCEPT !.runs = @ + 1]
    IN IF msg.hasBandstats
       THEN HandleBandstatsResponse([ran EXCEPT !.handled = Append(@, "bandstats")], msg)
       ELSE IF msg.hasPalette
            THEN HandlePaletteResponse([ran EXCEPT !.handled = Append(@, "palette")], msg)
            ELSE [ran EXCEPT !.handled = Append(@, "palette"), !.threw = TRUE]

\* A callback with two independent tests: a message with both keys goes to
\* both handlers.
OnMsgCustomEveryMatch(e, msg) ==
    LET ran == [e EXCEPT !.runs = @ + 1]
        first == IF msg.hasBandstats
                 THEN HandleBandstatsResponse(
                          [ran EXCEPT !.handled = Append(@, "bandstats")], msg)
                 ELSE ran
    IN IF msg.hasPalette
       THEN HandlePaletteResponse([first EXCEPT !.handled = Append(@, "palette")], msg)
       ELSE first

\* The msg:custom callback of registerCustomMessageHandlers.
OnMsgCustom(e, msg) ==
    LET ran == [e EXCEPT !.runs = @ + 1]
    IN IF msg.hasBandstats
       THEN HandleBandstatsResponse([ran EXCEPT !.handled = Append(@, "bandstats")], msg)
       ELSE IF msg.hasPalette
            THEN HandlePaletteResponse([ran EXCEPT !.handled = Append(@, "palette")], msg)
            ELSE ran

\* Backbone's trigger("msg:custom", msg): the registered callbacks run in
\* turn; an exception ends the dispatch.
RECURSIVE TriggerMsg(_, _, _)
TriggerMsg(e, msg, n) ==
    IF n = 0 \/ e.threw THEN e
    ELSE TriggerMsg(OnMsgCustom(e, msg), msg, n - 1)

\* The kernel sends a custom message on model m.
MsgCustom(m, msg) ==
    /\ count.reply < MaxReply
    /\ ~UpdatePending
    /\ widget = "LayerEditor"
    /\ LET e == TriggerMsg(Editor(minValue, maxValue, palette), msg,
                           listeners[m][MsgCustomEvent])
       IN /\ minValue' = e.minValue
          /\ maxValue' = e.maxValue
          /\ palette' = e.palette
          /\ last' = [Step("msg", m, "") EXCEPT !.runs = e.runs, !.msg = msg,
                                                !.before = <<minValue, maxValue>>,
                                                !.handled = e.handled,
                                                !.threw = e.threw]
    /\ calls' = <<>>
    /\ count' = [count EXCEPT !.reply = @ + 1]
    /\ UNCHANGED <<widget, detached, domVars, requested, displayVars, attrs, listeners, model, view, changedProperties, origin,
                   connected, hasUpdated, stretch, minAndMaxValuesLocked,
                   selectionVars>>

\* The band-stats command sent by the last step reaches the kernel, which
\* computes the statistics of the bands named in its detail.
KernelReceivesBandStats ==
    /\ \E i \in 1..Len(calls) :
          /\ calls[i].op = "send"
          /\ calls[i].key = "band-stats"
          /\ requested' = [model |-> calls[i].model,
                           bands |-> calls[i].detail.bands,
                           stretch |-> calls[i].detail.stretch]
    /\ requested' # requested
    /\ UNCHANGED <<widget, detached, domVars, displayVars, attrs, listeners, model,
                   view, changedProperties, origin, connected, hasUpdated,
                   rasterVars, calls, last, count>>

----------------------------------------------------------------------------
(* Band selection *)

\* The band names a value of "band_names" stands for: the declared default is
\* the empty array.
BandNamesOf(v) == IF v = DefaultVal THEN <<>> ELSE <<"B1", "B2">>

\* RasterLayerEditor.bandNames, bound to the layer editor's bandNames by
\* .bandNames="${this.bandNames}".
BandNames == BandNamesOf(view["bandNames"])

\* this.bandNames[0]
FirstBand == IF Len(BandNames) > 0 THEN BandNames[1] ELSE Undefined

\* The two colour-model radios.
ColorModels == {"gray", "rgb"}

\* A handler that records the colour model and leaves the selected bands.
OnColorModelChangedKeepsBands(cm) ==
    /\ count.select < MaxSelect
    /\ ~UpdatePending
    /\ widget = "LayerEditor"
    /\ hasUpdated
    /\ colorModel' = cm
    /\ calls' = <<>>
    /\ last' = Step("color-model", Undefined, cm)
    /\ count' = [count EXCEPT !.select = @ + 1]
    /\ UNCHANGED <<widget, detached, domVars, requested, displayVars, attrs, listeners, model, view, changedProperties,
                   origin, connected, hasUpdated, stretch, minValue, maxValue,
                   minAndMaxValuesLocked, palette, colormap, classes, selectedBands,
                   inflight>>

\* RasterLayerEditor.onColorModelChanged
OnColorModelChanged(cm) ==
    /\ count.select < MaxSelect
    /\ ~UpdatePending
    /\ widget = "LayerEditor"
    /\ hasUpdated
    /\ colorModel' = cm
    /\ selectedBands' = IF cm = "gray" THEN <<FirstBand>>
                        ELSE <<FirstBand, FirstBand, FirstBand>>
    /\ calls' = <<>>
    /\ last' = Step("color-model", Undefined, cm)
    /\ count' = [count EXCEPT !.select = @ + 1]
    /\ UNCHANGED <<widget, detached, domVars, requested, displayVars, attrs, listeners, model, view, changedProperties,
                   origin, connected, hasUpdated, stretch, minValue, maxValue,
                   minAndMaxValuesLocked, palette, colormap, classes, inflight>>

\* The value the j-th band <select> shows: the selected band if it is among
\* the options, else the first option.
ShownBand(j) ==
    IF selectedBands[j] \in Range(BandNames) THEN selectedBands[j] ELSE BandNames[1]

\* RasterLayerEditor.onBandSelectionChanged: the user picks band b in the i-th
\* <select>; getSelectedBands() reads the value of every <select>.
OnBandSelectionChanged(i, b) ==
    /\ count.select < MaxSelect
    /\ ~UpdatePending
    /\ widget = "LayerEditor"
    /\ hasUpdated
    /\ i \in 1..Len(selectedBands)
    /\ b \in Range(BandNames)
    /\ b # ShownBand(i)
    /\ selectedBands' = [j \in 1..Len(selectedBands) |->
                            IF j = i THEN b ELSE ShownBand(j)]
    /\ calls' = <<>>
    /\ last' = Step("band", Undefined, b)
    /\ count' = [count EXCEPT !.select = @ + 1]
    /\ UNCHANGED <<widget, detached, domVars, requested, displayVars, attrs, listeners, model, view, changedProperties,
                   origin, connected, hasUpdated, stretch, minValue, maxValue,
                   minAndMaxValuesLocked, palette, colormap, classes, colorModel,
                   inflight>>

----------------------------------------------------------------------------
(* PaletteEditor *)

\* The colormap options explored and two of the values of classesOptions.
Colormaps == {"Custom", "viridis"}
ClassesValues == {"any", "3"}
\* What the user types into the palette field.
PaletteTexts == {"", "red, blue"}

\* PaletteEditor.sendOnPaletteChangedEvent and its listener
\* LayerEditor.onPaletteChanged:
\*     this._model?.send({type: "calculate", id: "palette",
\*                        detail: {colormap, classes, palette, bandMin, bandMax}})
OnPaletteChangedEvent(mdl, cm, cl, pal) ==
    IF mdl = Undefined THEN <<>>
    ELSE <<[op |-> "send", model |-> mdl, key |-> "palette", value |-> pal,
            detail |-> [NoDetail EXCEPT !.colormap = cm, !.classes = cl,
                                        !.palette = pal,
                                        !.bandMin = minValue, !.bandMax = maxValue]]>>

\* The commands under way after the palette editor's event was handled.
Sent(mdl, cm, cl) ==
    IF mdl = Undefined THEN inflight
    ELSE inflight \cup {[model |-> mdl, colormap |-> cm, classes |-> cl]}

\* PaletteEditor.onColormapChanged
OnColormapChanged(cm) ==
    /\ count.paletteEdit < MaxPaletteEdit
    /\ ~UpdatePending
    /\ widget = "LayerEditor"
    /\ hasUpdated
    /\ cm # colormap
    /\ colormap' = cm
    /\ calls' = OnPaletteChangedEvent(model, cm, classes, palette)
    /\ inflight' = Sent(model, cm, classes)
    /\ last' = Step("colormap", model, cm)
    /\ count' = [count EXCEPT !.paletteEdit = @ + 1]
    /\ UNCHANGED <<widget, detached, domVars, requested, displayVars, attrs, listeners, model, view, changedProperties,
                   origin, connected, hasUpdated, stretch, minValue, maxValue,
                   minAndMaxValuesLocked, palette, classes, colorModel, selectedBands>>

\* PaletteEditor.onClassesChanged
OnClassesChanged(cl) ==
    /\ count.paletteEdit < MaxPaletteEdit
    /\ ~UpdatePending
    /\ widget = "LayerEditor"
    /\ hasUpdated
    /\ cl # classes
    /\ classes' = cl
    /\ calls' = OnPaletteChangedEvent(model, colormap, cl, palette)
    /\ inflight' = Sent(model, colormap, cl)
    /\ last' = Step("classes", model, cl)
    /\ count' = [count EXCEPT !.paletteEdit = @ + 1]
    /\ UNCHANGED <<widget, detached, domVars, requested, displayVars, attrs, listeners, model, view, changedProperties,
                   origin, connected, hasUpdated, stretch, minValue, maxValue,
                   minAndMaxValuesLocked, palette, colormap, colorModel, selectedBands>>

\* PaletteEditor.onPaletteChanged: the text field is disabled unless the
\* colormap is "Custom".
OnPaletteChanged(text) ==
    /\ count.paletteEdit < MaxPaletteEdit
    /\ ~UpdatePending
    /\ widget = "LayerEditor"
    /\ hasUpdated
    /\ colormap = "Custom"
    /\ text # palette
    /\ palette' = text
    /\ calls' = OnPaletteChangedEvent(model, colormap, classes, text)
    /\ inflight' = Sent(model, colormap, classes)
    /\ last' = Step("palette-text", model, text)
    /\ count' = [count EXCEPT !.paletteEdit = @ + 1]
    /\ UNCHANGED <<widget, detached, domVars, requested, displayVars, attrs, listeners, model, view, changedProperties,
                   origin, connected, hasUpdated, stretch, minValue, maxValue,
                   minAndMaxValuesLocked, colormap, classes, colorModel, selectedBands>>

\* The PaletteEditor of the earlier layer editor: colormap starts as "", the
\* palette field is never disabled, and the three handlers assign
\* this.classes = target.value and dispatch nothing.

\* The option the colormap <select> shows: the user's pick, and before any
\* pick the first option, since no option's value equals colormap.
EarlierShownColormap == IF shown.colormap = "" THEN "Custom" ELSE shown.colormap

\* PaletteEditor.onClassesChanged of the earlier layer editor
EarlierOnClassesChanged(cl) ==
    /\ count.paletteEdit < MaxPaletteEdit
    /\ ~UpdatePending
    /\ widget = "LayerEditor"
    /\ hasUpdated
    /\ cl # shown.classes
    /\ classes' = cl
    /\ shown' = [shown EXCEPT !.classes = cl]
    /\ calls' = <<>>
    /\ last' = Step("classes", model, cl)
    /\ count' = [count EXCEPT !.paletteEdit = @ + 1]
    /\ UNCHANGED <<widget, detached, treeVars, childVars, requested, displayVars, attrs,
                   listeners, model, view, changedProperties, origin, connected,
                   hasUpdated, stretch, minValue, maxValue, minAndMaxValuesLocked,
                   palette, colormap, colorModel, selectedBands, inflight>>

\* PaletteEditor.onColormapChanged of the earlier layer editor: the options
\* are the colormaps the model supplied.
EarlierOnColormapChanged(cm) ==
    /\ count.paletteEdit < MaxPaletteEdit
    /\ ~UpdatePending
    /\ widget = "LayerEditor"
    /\ hasUpdated
    /\ view["colormaps"] # DefaultVal
    /\ cm # EarlierShownColormap
    /\ classes' = cm
    /\ shown' = [shown EXCEPT !.colormap = cm]
    /\ calls' = <<>>
    /\ last' = Step("colormap", model, cm)
    /\ count' = [count EXCEPT !.paletteEdit = @ + 1]
    /\ UNCHANGED <<widget, detached, treeVars, childVars, requested, displayVars, attrs,
                   listeners, model, view, changedProperties, origin, connected,
                   hasUpdated, stretch, minValue, maxValue, minAndMaxValuesLocked,
                   palette, colormap, colorModel, selectedBands, inflight>>

\* PaletteEditor.onPaletteTextChanged of the earlier layer editor
EarlierOnPaletteTextChanged(text) ==
    /\ count.paletteEdit < MaxPaletteEdit
    /\ ~UpdatePending
    /\ widget = "LayerEditor"
    /\ hasUpdated
    /\ text # shown.palette
    /\ classes' = text
    /\ shown' = [shown EXCEPT !.palette = text]
    /\ calls' = <<>>
    /\ last' = Step("palette-text", model, text)
    /\ count' = [count EXCEPT !.paletteEdit = @ + 1]
    /\ UNCHANGED <<widget, detached, treeVars, childVars, requested, displayVars, attrs,
                   listeners, model, view, changedProperties, origin, connected,
                   hasUpdated, stretch, minValue, maxValue, minAndMaxValuesLocked,
                   palette, colormap, colorModel, selectedBands, inflight>>

\* The kernel answers a palette command that is under way: the reply arrives
\* as a custom message on the model the command was sent on.
PaletteReply(cmd, p) ==
    /\ count.reply < MaxReply
    /\ ~UpdatePending
    /\ widget = "LayerEditor"
    /\ cmd \in inflight
    /\ LET msg == [NoMsg EXCEPT !.hasPalette = TRUE,
                                !.palette = [palette |-> p,
                                             colormap |-> cmd.colormap,
                                             classes |-> cmd.classes]]
           e == TriggerMsg(Editor(minValue, maxValue, palette), msg,
                           listeners[cmd.model][MsgCustomEvent])
       IN /\ minValue' = e.minValue
          /\ maxValue' = e.maxValue
          /\ palette' = e.palette
          /\ last' = [Step("msg", cmd.model, "") EXCEPT
                        !.runs = e.runs, !.msg = msg,
                        !.before = <<minValue, maxValue>>,
                        !.handled = e.handled,
                        !.threw = e.threw]
    /\ inflight' = inflight \ {cmd}
    /\ calls' = <<>>
    /\ count' = [count EXCEPT !.reply = @ + 1]
    /\ UNCHANGED <<widget, detached, domVars, requested, displayVars, attrs, listeners, model, view, changedProperties,
                   origin, connected, hasUpdated, stretch, minAndMaxValuesLocked,
                   colormap, classes, colorModel, selectedBands>>

----------------------------------------------------------------------------
(* A model handle that raises *)

\* The key-map entries the setter handles (all of them in the Container).
Handled(w, i) == w = "Container" \/ ModelNameToViewName(w)[i][2] # Null

\* The setter's loop when model.get raises at the n-th entry: the entries
\* before it were read, the exception leaves the loop.
RECURSIVE SetModelLoopThrows(_, _, _, _, _)
SetModelLoopThrows(s, w, m, i, n) ==
    LET km == ModelNameToViewName(w)
    IN IF i >= n THEN s
       ELSE IF Handled(w, i)
            THEN SetModelLoopThrows(
                    SetProperty(s, km[i][2], s.attrs[m][km[i][1]], "attach"),
                    w, m, i + 1, n)
            ELSE SetModelLoopThrows(s, w, m, i + 1, n)

\* The model.on calls the setter made before the n-th entry.
SubscribeBefore(lis, w, m, n) ==
    LET km == ModelNameToViewName(w)
    IN [lis EXCEPT ![m] =
          [e \in DOMAIN @ |->
              IF \E i \in 1..(n - 1) : km[i][1] = e /\ Handled(w, i)
              THEN @[e] + 1
              ELSE @[e]]]

\* set model(model) on a handle whose get raises for the n-th field: the
\* setter has no try/catch, so the exception ends it; the LayerEditor does not
\* reach registerCustomMessageHandlers.
SetModelThrows(m, n) ==
    /\ count.attach < MaxAttach
    /\ ~UpdatePending
    /\ n \in 1..Len(ModelNameToViewName(widget))
    /\ Handled(widget, n)
    /\ LET s == SetModelLoopThrows(Work(attrs, view, changedProperties, origin),
                                   widget, m, 1, n)
       IN /\ model' = m
          /\ view' = s.view
          /\ changedProperties' = s.changed
          /\ origin' = s.origin
          /\ listeners' = SubscribeBefore(listeners, widget, m, n)
          /\ calls' = s.calls
          /\ last' = [Step("attach", m, ModelNameToViewName(widget)[n][1])
                        EXCEPT !.threw = TRUE]
    /\ count' = [count EXCEPT !.attach = @ + 1]
    /\ UNCHANGED <<widget, detached, domVars, requested, displayVars, attrs, connected, hasUpdated, rasterVars>>

\* The loop of updated() when model.set raises at the n-th changed property:
\* the properties before it were pushed, the exception leaves updated() and
\* save_changes is not reached.
RECURSIVE UpdatedLoopThrows(_, _, _, _, _, _)
UpdatedLoopThrows(s, w, mdl, batch, i, n) ==
    IF i >= n THEN s
    ELSE LET p == batch[i]
             inv == ViewNameToModelName(w)
         IN IF p \in DOMAIN inv
            THEN UpdatedLoopThrows(ModelSet(s, w, mdl, inv[p], s.view[p]),
                                   w, mdl, batch, i + 1, n)
            ELSE UpdatedLoopThrows(s, w, mdl, batch, i + 1, n)

\* Lit's update cycle on a handle whose set raises for the n-th changed
\* property.  Lit has reset changedProperties and set hasUpdated before it
\* calls updated().
UpdateThrows(n) ==
    /\ UpdatePending
    /\ model # Undefined
    /\ n \in 1..Len(changedProperties)
    /\ changedProperties[n] \in DOMAIN ViewNameToModelName(widget)
    /\ LET s == UpdatedLoopThrows(Work(attrs, view, <<>>, NoOrigin(widget)), widget,
                                  model, changedProperties, 1, n)
       IN /\ attrs' = s.attrs
          /\ view' = s.view
          /\ changedProperties' = s.changed
          /\ origin' = s.origin
          /\ calls' = s.calls
          /\ last' = [Step("update", model,
                           ViewNameToModelName(widget)[changedProperties[n]]) EXCEPT
                        !.runs = s.runs,
                        !.batch = changedProperties,
                        !.remote = {p \in Range(changedProperties) : origin[p] = "remote"},
                        !.user = {p \in Range(changedProperties) : origin[p] = "user"},
                        !.threw = TRUE]
    /\ hasUpdated' = TRUE
    /\ UNCHANGED <<widget, detached, domVars, requested, displayVars, listeners, model, connected, rasterVars, count>>

----------------------------------------------------------------------------
(* Disposal *)

\* The host discards the view and removes its element from the document.
\* render() returns no cleanup function and no view class defines a
\* disconnectedCallback, so no model.off runs; Lit keeps updating an element
\* that was connected once.
Detach ==
    /\ ~detached
    /\ connected
    /\ model # Undefined
    /\ ~UpdatePending
    /\ detached' = TRUE
    /\ calls' = <<>>
    /\ last' = Step("detach", model, "")
    /\ UNCHANGED <<widget, domVars, requested, displayVars, attrs, listeners, model, view,
                   changedProperties, origin, connected, hasUpdated, rasterVars, count>>

----------------------------------------------------------------------------
(* The layer editor's child views *)

\* The values "children" takes, and the model ids each of them lists.
Snapshots == Val \cup {"v2"}
ChildIds(v) ==
    IF v = DefaultVal THEN <<>>
    ELSE IF v = "v1" THEN <<"c1", "c2">>
    ELSE <<"c2", "c1">>

\* The views created for a value of "children": one per model id, in order
\* (Promise.all keeps the order of its input).
ChildViews(v) == [i \in 1..Len(ChildIds(v)) |-> "view of " \o ChildIds(v)[i]]

\* render() of the layer editor: the view is created, given its model and
\* appended to el; updateChildren is called, which reads model.get("children")
\* and suspends at its first await; the change:children listener is
\* registered.
Render(m) ==
    /\ count.attach < MaxAttach
    /\ widget = "LayerEditor"
    /\ model = Undefined
    /\ ~connected
    /\ LET s == SetModelLoop(Work(attrs, view, changedProperties, origin), widget, m, 1)
       IN /\ model' = m
          /\ view' = s.view
          /\ changedProperties' = s.changed
          /\ origin' = s.origin
          /\ listeners' = RegisterCustomMessageHandlers(Subscribe(listeners, widget, m), m)
          /\ calls' = s.calls
    /\ connected' = TRUE
    /\ pending' = Append(pending, attrs[m]["children"])
    /\ watching' = m
    /\ last' = Step("render", m, "")
    /\ count' = [count EXCEPT !.attach = @ + 1]
    /\ UNCHANGED <<widget, detached, treeVars, shown, container, requested, displayVars, attrs, hasUpdated,
                   rasterVars>>

\* The kernel changes "children" of model m: the callbacks the view
\* registered run (none: the key is mapped to null), and render()'s listener
\* calls updateChildren, which reads the new value and suspends.
ChildrenChange(m, v) ==
    /\ count.remote < MaxRemote
    /\ ~UpdatePending
    /\ widget = "LayerEditor"
    /\ attrs[m]["children"] # v
    /\ LET s == Trigger(Work([attrs EXCEPT ![m]["children"] = v], view,
                             changedProperties, origin),
                        widget, m, "children", listeners[m]["children"])
       IN /\ attrs' = s.attrs
          /\ view' = s.view
          /\ changedProperties' = s.changed
          /\ origin' = s.origin
          /\ calls' = s.calls
          /\ last' = [Step("children", m, "children") EXCEPT !.runs = s.runs]
    /\ pending' = IF watching = m THEN Append(pending, v) ELSE pending
    /\ count' = [count EXCEPT !.remote = @ + 1]
    /\ UNCHANGED <<widget, detached, treeVars, shown, watching, container, requested, displayVars, listeners,
                   model, connected, hasUpdated, rasterVars>>

\* A completion that appends the views without emptying the container.
UpdateChildrenAppends(i) ==
    /\ i \in 1..Len(pending)
    /\ container' = container \o ChildViews(pending[i])
    /\ pending' = [j \in 1..(Len(pending) - 1) |->
                     IF j < i THEN pending[j] ELSE pending[j + 1]]
    /\ calls' = <<>>
    /\ last' = Step("children shown", watching, pending[i])
    /\ UNCHANGED <<widget, detached, treeVars, shown, watching, requested, displayVars, attrs, listeners,
                   model, view, changedProperties, origin, connected, hasUpdated,
                   rasterVars, count>>

\* The awaits of the i-th updateChildren call under way resolve
\* (unpackModels, then create_view for every child model); the rest of the
\* call runs without suspending: container.innerHTML = `` and one
\* appendChild per view.
UpdateChildrenResumes(i) ==
    /\ i \in 1..Len(pending)
    /\ container' = ChildViews(pending[i])
    /\ pending' = [j \in 1..(Len(pending) - 1) |->
                     IF j < i THEN pending[j] ELSE pending[j + 1]]
    /\ calls' = <<>>
    /\ last' = Step("children shown", watching, pending[i])
    /\ UNCHANGED <<widget, detached, treeVars, shown, watching, requested, displayVars, attrs, listeners,
                   model, view, changedProperties, origin, connected, hasUpdated,
                   rasterVars, count>>

----------------------------------------------------------------------------
(* The close button *)

\* A handler that also flushes the model.
CloseCommandAndSave(w, mdl) ==
    IF w = "Container" \/ mdl = Undefined THEN <<>>
    ELSE <<[op |-> "send", model |-> mdl, key |-> "close", value |-> "click",
            detail |-> NoDetail],
           [op |-> "flush", model |-> mdl, key |-> "", value |-> "",
            detail |-> NoDetail]>>

\* A handler that calls send on the handle without testing it:
\*     this._model.send({type: "click", id: "close"})
CloseCommandUnguarded(w, mdl) ==
    IF w = "Container" THEN <<>>
    ELSE <<[op |-> "send", model |-> mdl, key |-> "close", value |-> "click",
            detail |-> NoDetail]>>

\* Inspector.onCloseButtonClicked and LayerEditor.onCloseButtonClicked:
\*     this._model?.send({type: "click", id: "close"})
\* The container itself only dispatches the event.
CloseCommand(w, mdl) ==
    IF w = "Container" \/ mdl = Undefined THEN <<>>
    ELSE <<[op |-> "send", model |-> mdl, key |-> "close", value |-> "click",
            detail |-> NoDetail]>>

\* A click on the close button of the rendered container
\* (Container.onCloseButtonClicked dispatches close-clicked, whose listener
\* in the inspector or the layer editor runs synchronously).
OnCloseButtonClicked ==
    /\ hasUpdated
    /\ ~UpdatePending
    /\ calls' = CloseCommand(widget, model)
    /\ last' = Step("close", model, "close")
    /\ UNCHANGED <<widget, detached, domVars, requested, displayVars, attrs, listeners, model, view,
                   changedProperties, origin, connected, hasUpdated, rasterVars, count>>

----------------------------------------------------------------------------
(* TreeNode and the inspector's tree *)

\* A Node object is modelled by the paths of the nodes below it (a path is the
\* sequence of child indices from the root) and, per node, its `expanded`
\* key: absent ("none"), true, false, or present with the value undefined.
Flags == {"none", "true", "false", Undefined}

TreeShapes == {{<<>>}, {<<>>, <<1>>}, {<<>>, <<1>>, <<2>>, <<1, 1>>}}

\* The values the kernel pushes for point_info.
TreeData ==
    {[paths |-> sh, flag |-> f] :
        sh \in TreeShapes,
        f \in {g \in [{<<>>, <<1>>, <<2>>, <<1, 1>>} -> Flags] :
                 /\ g[<<1>>] # Undefined
                 /\ g[<<1, 1>>] \in {"none", "true"}
                 /\ g[<<2>>] = "none"}}

Tree(d) == [paths |-> d.paths, flag |-> [p \in d.paths |-> d.flag[p]]]

NoElements == [p \in {} |-> FALSE]

Parent(p) == SubSeq(p, 1, Len(p) - 1)

Below(p, q) == Len(q) > Len(p) /\ SubSeq(q, 1, Len(p)) = p

Children(d, p) == {c \in d.paths : Len(c) = Len(p) + 1 /\ Parent(c) = p}

\* TreeNode.hasChildren: (this.node.children?.length ?? 0) > 0
HasChildren(d, p) == Children(d, p) # {}

\* A tree that realises the children of every node that has some.
RenderChildrenEagerly(e, d, p) == HasChildren(d, p)

\* TreeNode.renderChildren: the child elements are part of the render result
\* only if (this.expanded && this.hasChildren()).
RenderChildren(e, d, p) == e /\ HasChildren(d, p)

\* An `updated` that takes the flag only when it is true.
UpdatedOnlyExpands(flag, e) == e \/ flag = "true"

\* TreeNode.updated, for an element whose `node` changed:
\*     if ('expanded' in this.node) this.expanded = this.node.expanded ?? false
UpdatedExpanded(flag, e) == IF flag = "none" THEN e ELSE flag = "true"

\* A click handler that only ever expands.
ToggledToExpanded(e) == TRUE

\* TreeNode.toggleExpand: this.expanded = !this.expanded
Toggled(e) == ~e

\* Rendering d over the elements `old`.  An element is kept when the template
\* position it was rendered at is rendered again: the root's when the old and
\* the new root both have children (Inspector.renderNode), a child's when its
\* parent's element is kept and rendered its children before and after the
\* parent's `updated`.  A kept element keeps its `expanded` property, every
\* other element starts from the class default (false); each is then given
\* its node and runs `updated`.
RECURSIVE Kept(_, _, _), Settled(_, _, _), Realised(_, _, _)
Kept(d, old, p) ==
    /\ p \in DOMAIN old
    /\ p \in d.paths
    /\ IF p = <<>> THEN HasChildren(d, p)
       ELSE /\ Kept(d, old, Parent(p))
            /\ RenderChildren(old[Parent(p)], d, Parent(p))
            /\ RenderChildren(Settled(d, old, Parent(p)), d, Parent(p))

Settled(d, old, p) ==
    UpdatedExpanded(d.flag[p], IF Kept(d, old, p) THEN old[p] ELSE FALSE)

Realised(d, old, p) ==
    IF p = <<>> THEN HasChildren(d, p)
    ELSE /\ Realised(d, old, Parent(p))
         /\ RenderChildren(Settled(d, old, Parent(p)), d, Parent(p))

Elements(d, old) ==
    [p \in {q \in d.paths : Realised(d, old, q)} |-> Settled(d, old, p)]

\* The kernel pushes d for point_info: the change callback stores it in
\* pointInfo, the inspector renders again (Inspector.renderNode) and the tree
\* elements are given their nodes (TreeNode.renderChild), each running
\* `updated`.  Backbone reports no change for a value equal to the current one.
RenderNode(d) ==
    /\ count.push < MaxPush
    /\ widget = "Inspector"
    /\ hasUpdated
    /\ ~UpdatePending
    /\ d # nodeData
    /\ nodeData' = d
    /\ treeExpanded' = Elements(d, treeExpanded)
    /\ touched' = {p \in touched : Kept(d, treeExpanded, p) /\ d.flag[p] = "none"}
    /\ lastToggle' = [path |-> <<>>, before |-> FALSE, again |-> FALSE,
                      below |-> NoElements]
    /\ calls' = <<>>
    /\ last' = Step("node", model, "point_info")
    /\ count' = [count EXCEPT !.push = @ + 1]
    /\ UNCHANGED <<widget, detached, childVars, shown, requested, displayVars, attrs, listeners, model, view,
                   changedProperties, origin, connected, hasUpdated, rasterVars>>

\* The elements created below p when p renders its children: a new element
\* renders its own children if its node says expanded: true.
RECURSIVE RealisedBelow(_, _, _)
RealisedBelow(d, p, q) ==
    \/ Parent(q) = p
    \/ /\ RealisedBelow(d, p, Parent(q))
       /\ RenderChildren(Settled(d, NoElements, Parent(q)), d, Parent(q))

\* A click on the expand button of the element at p (TreeNode.toggleExpand)
\* and the render that follows: collapsing removes the elements below p,
\* expanding creates new ones for the children of p, and each new element
\* runs `updated` on its node.
ToggleExpand(p) ==
    /\ widget = "Inspector"
    /\ ~UpdatePending
    /\ p \in DOMAIN treeExpanded
    /\ LET e == Toggled(treeExpanded[p])
           keep == {q \in DOMAIN treeExpanded : ~Below(p, q)}
           new == IF RenderChildren(e, nodeData, p)
                  THEN {q \in nodeData.paths :
                          Below(p, q) /\ RealisedBelow(nodeData, p, q)}
                  ELSE {}
       IN  /\ treeExpanded' =
                [q \in keep \cup new |->
                    IF q = p THEN e
                    ELSE IF q \in keep THEN treeExpanded[q]
                    ELSE Settled(nodeData, NoElements, q)]
           /\ touched' = (touched \cap keep) \cup {p}
    /\ lastToggle' = [path |-> p, before |-> treeExpanded[p],
                      again |-> last.kind = "toggle" /\ lastToggle.path = p,
                      below |-> [q \in {r \in DOMAIN treeExpanded : Below(p, r)} |->
                                   treeExpanded[q]]]
    /\ calls' = <<>>
    /\ last' = Step("toggle", model, "")
    /\ UNCHANGED <<widget, detached, childVars, shown, requested, displayVars, nodeData, attrs, listeners,
                   model, view, changedProperties, origin, connected, hasUpdated,
                   rasterVars, count>>

----------------------------------------------------------------------------
(* Specifications *)

\* The binding of a view to its model, for the three view classes.
Next ==
    \/ \E m \in Models : SetModel(m)
    \/ Connect
    \/ \E m \in Models, k \in KernelKeys(widget), v \in Val : RemoteChange(m, k, v)
    \/ \E p \in Range(Properties(widget)), v \in Val : UserEdit(p, v)
    \/ Update
    \/ OnCloseButtonClicked

Spec == Init /\ [][Next]_vars

\* The layer editor's command/response protocol.
InitStats == Init /\ widget = "LayerEditor"

NextStats ==
    \/ \E m \in Models : SetModel(m)
    \/ Connect
    \/ Update
    \/ \E s \in StretchValues : OnStretchChanged(s)
    \/ OnMinTextChanged
    \/ OnMaxTextChanged
    \/ \E m \in Models, msg \in InboundMessages : MsgCustom(m, msg)

SpecStats == InitStats /\ [][NextStats]_vars

\* The life of a view up to and after its disposal by the host.
NextTeardown ==
    \/ \E m \in Models : SetModel(m)
    \/ Connect
    \/ \E m \in Models, k \in KernelKeys(widget), v \in Val : RemoteChange(m, k, v)
    \/ Update
    \/ \E m \in Models, msg \in InboundMessages : MsgCustom(m, msg)
    \/ Detach

SpecTeardown == Init /\ [][NextTeardown]_vars

\* The raster editor's selections and the commands they send.
NextRaster ==
    \/ \E m \in Models : SetModel(m)
    \/ Connect
    \/ Update
    \/ \E s \in StretchValues : OnStretchChanged(s)
    \/ \E cm \in ColorModels : OnColorModelChanged(cm)
    \/ \E i \in 1..3, b \in {"B1", "B2"} : OnBandSelectionChanged(i, b)
    \/ \E m \in Models \cap {model}, s \in ReplyStretches :
          MsgCustom(m, [NoMsg EXCEPT !.hasBandstats = TRUE,
                                     !.bandstats = Bandstats(s, <<"0", "255">>)])

SpecRaster == InitStats /\ [][NextRaster]_vars

\* The palette editor's changes, the commands they send and their replies.
NextPalette ==
    \/ \E m \in Models : SetModel(m)
    \/ Connect
    \/ Update
    \/ \E cm \in Colormaps : OnColormapChanged(cm)
    \/ \E cl \in ClassesValues : OnClassesChanged(cl)
    \/ \E text \in PaletteTexts : OnPaletteChanged(text)
    \/ \E cmd \in inflight, p \in {"", "viridis"} : PaletteReply(cmd, p)

SpecPalette == InitStats /\ [][NextPalette]_vars

\* The palette editor of the earlier layer editor, attached to a model that
\* supplies colormaps, beside the stretch selection, whose handler and
\* listener are the same in the earlier layer editor.
InitEarlier == InitWith("") /\ widget = "LayerEditor"

NextEarlierPalette ==
    \/ SetModel("M1")
    \/ Connect
    \/ Update
    \/ \E cm \in Colormaps : EarlierOnColormapChanged(cm)
    \/ \E cl \in ClassesValues : EarlierOnClassesChanged(cl)
    \/ \E text \in PaletteTexts : EarlierOnPaletteTextChanged(text)
    \/ \E s \in {"custom", "sigma-1"} : OnStretchChanged(s)

SpecEarlierPalette == InitEarlier /\ [][NextEarlierPalette]_vars

\* Palette replies, empty and not, arriving at an editor whose palette
\* settings and range the user has set.
NextPaletteReply ==
    \/ \E m \in Models : SetModel(m)
    \/ Connect
    \/ Update
    \/ \E cm \in Colormaps : OnColormapChanged(cm)
    \/ \E cl \in ClassesValues : OnClassesChanged(cl)
    \/ \E text \in PaletteTexts : OnPaletteChanged(text)
    \/ OnMinTextChanged
    \/ \E m \in Models, msg \in PaletteMessages : MsgCustom(m, msg)

SpecPaletteReply == InitStats /\ [][NextPaletteReply]_vars

\* The binding on a model handle whose get or set may raise.
NextFault ==
    \/ \E m \in Models : SetModel(m)
    \/ Connect
    \/ \E p \in Range(Properties(widget)), v \in Val : UserEdit(p, v)
    \/ Update
    \/ \E m \in Models, n \in 1..Len(ModelNameToViewName(widget)) : SetModelThrows(m, n)
    \/ \E n \in 1..Len(Properties(widget)) : UpdateThrows(n)

SpecFault == Init /\ [][NextFault]_vars

\* The layer editor under remote changes of its mirrored attributes and
\* band-stats replies for the stretch it shows from the start.
NextOrder ==
    \/ \E m \in Models : SetModel(m)
    \/ Connect
    \/ Update
    \/ \E m \in Models, k \in {"title", "band_names"}, v \in Val : RemoteChange(m, k, v)
    \/ \E m \in Models \cap {model} :
          MsgCustom(m, [NoMsg EXCEPT !.hasBandstats = TRUE,
                                     !.bandstats = Bandstats("custom", <<"0", "255">>)])

SpecOrder == InitStats /\ [][NextOrder]_vars

\* The band-stats commands of the raster editor and the kernel's replies to
\* them: a reply answers the command the kernel received last and arrives on
\* that command's model.
NextFreshness ==
    \/ \E m \in Models : SetModel(m)
    \/ Connect
    \/ Update
    \/ \E s \in {"sigma-1", "sigma-2"} : OnStretchChanged(s)
    \/ KernelReceivesBandStats
    \/ \E cm \in ColorModels : OnColorModelChanged(cm)
    \/ \E m \in Models \cap {requested.model} :
          MsgCustom(m, [NoMsg EXCEPT !.request = requested,
                                     !.hasBandstats = TRUE,
                                     !.bandstats = Bandstats(requested.stretch,
                                                             <<"10", "200">>)])

SpecFreshness == InitStats /\ [][NextFreshness]_vars

\* The raster editor's range and display settings under stretch selections,
\* the other controls and matching band-stats replies.
NextRange ==
    \/ \E m \in Models : SetModel(m)
    \/ Connect
    \/ Update
    \/ \E s \in {"custom", "sigma-1"} : OnStretchChanged(s)
    \/ \E cm \in ColorModels : OnColorModelChanged(cm)
    \/ \E r \in ColorRamps : OnColorRampChanged(r)
    \/ \E v \in OpacityValues : OnOpacityChanged(v)
    \/ \E v \in GammaValues : OnGammaChanged(v)
    \/ \E m \in Models \cap {model} :
          MsgCustom(m, [NoMsg EXCEPT !.hasBandstats = TRUE,
                                     !.bandstats = Bandstats(stretch, <<"10", "200">>)])

SpecRange == InitStats /\ [][NextRange]_vars

\* The layer editor's child views: render(), the kernel's changes of
\* "children" and the completion of the updateChildren calls, in any order.
NextChildren ==
    \/ \E m \in Models : Render(m)
    \/ Update
    \/ \E m \in Models, v \in Val : ChildrenChange(m, v)
    \/ \E i \in 1..Len(pending) : UpdateChildrenResumes(i)

SpecChildren == InitStats /\ [][NextChildren]_vars

\* The child views under changes of "children" among three lists of ids, two
\* of them naming the same models in opposite orders.
NextSnapshots ==
    \/ \E m \in Models : Render(m)
    \/ Update
    \/ \E m \in Models, v \in Snapshots : ChildrenChange(m, v)
    \/ \E i \in 1..Len(pending) : UpdateChildrenResumes(i)

SpecSnapshots == InitStats /\ [][NextSnapshots]_vars

\* A rendered view before and after a model is attached: its update
\* batches, the close button and the raster editor's requests.
NextUnbound ==
    \/ \E m \in Models : SetModel(m)
    \/ Connect
    \/ Update
    \/ \E p \in Range(Properties(widget)), v \in Val : UserEdit(p, v)
    \/ OnCloseButtonClicked
    \/ \E s \in {"custom", "sigma-1"} : OnStretchChanged(s)
    \/ \E cm \in Colormaps : OnColormapChanged(cm)
    \/ \E cl \in ClassesValues : OnClassesChanged(cl)
    \/ \E text \in PaletteTexts : OnPaletteChanged(text)

SpecUnbound == Init /\ [][NextUnbound]_vars

\* The inspector's tree: values pushed for it and clicks on its nodes.
InitTree == Init /\ widget = "Inspector"

NextTree ==
    \/ Connect
    \/ Update
    \/ \E d \in TreeData : RenderNode(Tree(d))
    \/ \E p \in DOMAIN treeExpanded : ToggleExpand(p)

SpecTree == InitTree /\ [][NextTree]_vars

----------------------------------------------------------------------------
(* Properties of the binding (checked under Spec) *)

KeyMap == ModelNameToViewName(widget)
Inverse == ViewNameToModelName(widget)
SetCalls == {i \in 1..Len(calls) : calls[i].op = "set"}

\* C1  Initial sync: right after the `model` setter ran, every key-map entry
\* with a non-null local property has view[localProperty] = model.get(remoteField).
InitialSync ==
    last.kind = "attach" =>
        \A i \in 1..Len(KeyMap) :
            KeyMap[i][2] # Null => view[KeyMap[i][2]] = attrs[model][KeyMap[i][1]]

\* The setter ran on a model whose values differ from the declared defaults,
\* and the view now shows the model's values.
InitialSyncWitness ==
    /\ last.kind = "attach"
    /\ \A p \in Range(Properties(widget)) : view[p] # DefaultVal
    /\ \A p \in Range(Properties(widget)) : view[p] = attrs[model][Inverse[p]]

\* C2  Loop suppression: an update cycle issues no model.set for a field whose
\* pending change was written by that field's change callback.
NoEchoOfRemoteWrite ==
    last.kind = "update" =>
        \A i \in SetCalls : WidgetKeyOf(widget, calls[i].key) \notin last.remote

\* C3  Remote-to-local propagation: when the change callback of a mapped field
\* runs, the mapped property becomes the value the model holds for the field,
\* and no other property of the view is written.
RemoteToLocal ==
    [][(/\ count'.remote = count.remote + 1
        /\ last'.runs > 0)
       => LET p == WidgetKeyOf(widget, last'.key)
          IN /\ view'[p] = attrs'[last'.model][last'.key]
             /\ \A q \in DOMAIN view : q # p => view'[q] = view[q]]_vars

\* A change callback ran, changed its property, and the property holds the
\* value of the model that fired.
RemoteToLocalWitness ==
    /\ last.kind = "remote"
    /\ last.runs > 0
    /\ origin[WidgetKeyOf(widget, last.key)] = "remote"
    /\ view[WidgetKeyOf(widget, last.key)] = attrs[last.model][last.key]

\* C4  Local-to-remote propagation: an update batch of an attached view issues,
\* for every changed property a control of the view wrote, exactly one
\* model.set(remoteField, view[property]) on the attached model, and every
\* model.set it issues is for the remote field of a changed, mapped property.
LocalToRemote ==
    (last.kind = "update" /\ last.model # Undefined) =>
        /\ \A p \in last.user :
              /\ p \in DOMAIN Inverse
              /\ Cardinality({i \in SetCalls : calls[i].key = Inverse[p]}) = 1
              /\ \A i \in SetCalls :
                    calls[i].key = Inverse[p] =>
                        calls[i].value = view[p] /\ calls[i].model = last.model
        /\ \A i \in SetCalls :
              \E p \in Range(last.batch) \cap DOMAIN Inverse : calls[i].key = Inverse[p]

\* A batch holding a user-edited property was pushed to the model, which took
\* the new value.
LocalToRemoteWitness ==
    /\ last.kind = "update"
    /\ last.model # Undefined
    /\ \E p \in last.user :
          /\ \E i \in SetCalls : calls[i].key = Inverse[p] /\ calls[i].value = view[p]
          /\ attrs[model][Inverse[p]] = view[p]

\* C5  Single flush per batch: an update batch of an attached view calls
\* save_changes exactly once, after all of the batch's model.set calls.
SingleFlush ==
    (last.kind = "update" /\ last.model # Undefined) =>
        /\ Len(calls) >= 1
        /\ calls[Len(calls)].op = "flush"
        /\ \A i \in 1..(Len(calls) - 1) : calls[i].op = "set"

\* A batch of several mapped properties ended in one save_changes.
SingleFlushWitness ==
    /\ last.kind = "update"
    /\ last.model # Undefined
    /\ Cardinality(SetCalls) >= 2
    /\ calls[Len(calls)].op = "flush"

\* C9  No duplicate bindings: one change of a field, or one inbound message,
\* runs at most one callback of the view.
NoDuplicateBindings ==
    last.kind \in {"remote", "msg"} => last.runs <= 1

\* C10  Re-attachment tears down the previous binding: a change of a field of
\* a model the view no longer points at leaves the view's properties alone.
OnlyCurrentModelDrives ==
    [][(/\ count'.remote = count.remote + 1
        /\ model # Undefined
        /\ last'.model # model)
       => view' = view]_vars

\* A key map is well formed: no remote field occurs twice, no non-null local
\* property occurs twice, and the inverse of a non-null entry leads back to
\* its remote field.
WellFormed(km) ==
    /\ \A i, j \in 1..Len(km) : km[i][1] = km[j][1] => i = j
    /\ \A i, j \in 1..Len(km) :
          (km[i][2] # Null /\ km[i][2] = km[j][2]) => i = j
    /\ \A i \in 1..Len(km) :
          km[i][2] # Null => ReverseMap(km)[km[i][2]] = km[i][1]

\* C19  KeyMap well-formedness: the key map of the view at hand (Inspector,
\* LayerEditor or Container) and the two other declared maps have unique remote
\* fields and unique non-null local properties, and their inverse sends
\* forward(remoteField) back to remoteField.
KeyMapWellFormed ==
    /\ WellFormed(KeyMap)
    /\ WellFormed(LitContainerModelNameToViewName)
    /\ WellFormed(EarlierLayerEditorModelNameToViewName)

\* The layer editor, whose map has a null entry, is attached: the inverse
\* covers exactly its properties and the null entry, and leads back.
KeyMapWitness ==
    /\ widget = "LayerEditor"
    /\ last.kind = "attach"
    /\ DOMAIN Inverse = Range(Properties(widget)) \cup {Null}
    /\ Inverse["bandNames"] = "band_names"
    /\ WidgetKeyOf(widget, Inverse["bandNames"]) = "bandNames"

\* C20  Null-target fields: in the layer editor, whose map sends "children" to
\* null, no step leaves a callback of the view registered on change:children,
\* no property of the view maps back to "children", a remote change of
\* "children" runs no callback of the view and writes none of its properties,
\* and no step issues model.set("children", ...).
NullTargetUnmirrored ==
    [][widget = "LayerEditor" =>
          /\ \A m \in Models : listeners'[m]["children"] = 0
          /\ \A p \in DOMAIN view' : Inverse[p] # "children"
          /\ (count'.remote = count.remote + 1 /\ last'.key = "children") =>
                /\ last'.runs = 0
                /\ view' = view
                /\ changedProperties' = changedProperties
          /\ \A i \in 1..Len(calls') :
                calls'[i].op = "set" => calls'[i].key # "children"]_vars

\* The kernel changed "children" of the model a rendered layer editor is
\* attached to: no callback of the view ran and nothing is pending.
NullTargetWitness ==
    /\ widget = "LayerEditor"
    /\ hasUpdated
    /\ last.kind = "remote"
    /\ last.key = "children"
    /\ last.model = model
    /\ last.runs = 0
    /\ changedProperties = <<>>
    /\ \A p \in DOMAIN view : view[p] = attrs[model][Inverse[p]]

\* C18  No ping-pong: the update cycle that follows a remote change or a user
\* edit ends the exchange: it issues at most one model.set per property of its
\* batch and at most one save_changes, and when it is over no property change
\* is pending, so no further cycle runs without a new external event.
NoPingPong ==
    last.kind = "update" =>
        /\ changedProperties = <<>>
        /\ Cardinality(SetCalls) <= Len(last.batch)
        /\ Cardinality({i \in 1..Len(calls) : calls[i].op = "flush"}) <= 1

\* The cycle after a remote change echoed the field to the model, the cycle
\* after it would have nothing to do.
NoPingPongRemoteWitness ==
    /\ last.kind = "update"
    /\ hasUpdated
    /\ last.remote # {}
    /\ \E i \in SetCalls : WidgetKeyOf(widget, calls[i].key) \in last.remote
    /\ changedProperties = <<>>

\* C26: a click on the close button of an inspector or a layer editor that has
\* a model makes exactly one call on that model, send({type: "click",
\* id: "close"}): no set, no save_changes, and no property of the view, no
\* attribute of a model and no pending change is altered.
CloseSendsOneCommand ==
    [][(last'.kind = "close" /\ widget # "Container" /\ model # Undefined)
       => /\ calls' = <<[op |-> "send", model |-> model, key |-> "close",
                         value |-> "click", detail |-> NoDetail]>>
          /\ UNCHANGED <<view, changedProperties, origin, attrs, listeners, model,
                         rasterVars, domVars>>]_vars

\* The close button of a rendered layer editor attached to M2 was clicked
\* after the kernel had changed an attribute.
CloseWitness ==
    /\ last.kind = "close"
    /\ widget = "LayerEditor"
    /\ model = "M2"
    /\ count.remote > 0
    /\ Len(calls) = 1
    /\ calls[1].op = "send"

\* C29: in every state of a view that has a model and in which no update is
\* pending (every change callback has run and every batch was flushed),
\* whatever user edits and remote changes came before, each mirrored property
\* of the view equals the attribute of the attached model it is mapped to.
QuiescentConsistency ==
    (model # Undefined /\ Len(changedProperties) = 0)
       => \A i \in 1..Len(KeyMap) :
             KeyMap[i][2] # Null
                => view[KeyMap[i][2]] = attrs[model][KeyMap[i][1]]

\* A quiescent inspector, attached to M1 and then to M2, after a user edit and
\* a remote change.
QuiescentWitness ==
    /\ widget = "Inspector"
    /\ model = "M2"
    /\ count.attach = 2
    /\ count.edit > 0
    /\ count.remote > 0
    /\ last.kind = "update"
    /\ Len(changedProperties) = 0

----------------------------------------------------------------------------
(* Properties of the band-stats protocol (checked under SpecStats) *)

\* The last step was a band-stats reply that a handler of the view received
\* while the raster editor existed.
BandstatsArrived ==
    /\ last.kind = "msg"
    /\ last.runs > 0
    /\ hasUpdated
    /\ last.msg.hasBandstats

\* C6  Stale reply rejection: a band-stats reply whose stretch differs from the
\* raster editor's stretch when it arrives changes neither minValue nor
\* maxValue, nor anything else of the view.
StaleReplyRejected ==
    [][(/\ count'.reply = count.reply + 1
        /\ last'.msg.hasBandstats
        /\ last'.msg.bandstats.stretch # stretch)
       => UNCHANGED <<minValue, maxValue, stretch, minAndMaxValuesLocked, palette,
                      view, changedProperties>>]_vars

\* A reply for "sigma-2" reached the handler after the user had selected
\* another stretch; the cleared range is still clear.
StaleReplyWitness ==
    /\ BandstatsArrived
    /\ count.stretch > 0
    /\ last.msg.bandstats.stretch = "sigma-2"
    /\ stretch \notin {"sigma-2", "custom"}
    /\ minValue = Undefined
    /\ maxValue = Undefined

\* C7  Matching reply application: a band-stats reply whose stretch equals the
\* raster editor's stretch when it arrives sets minValue and maxValue to the
\* reply's min and max.
MatchingReplyApplied ==
    (BandstatsArrived /\ last.msg.bandstats.stretch = stretch) =>
        /\ minValue = last.msg.bandstats.min
        /\ maxValue = last.msg.bandstats.max

\* The reply {stretch: "sigma-1", min: 0, max: 255} arrived while "sigma-1" was
\* selected and filled the cleared range.
MatchingReplyWitness ==
    /\ BandstatsArrived
    /\ stretch = "sigma-1"
    /\ last.msg.bandstats = Bandstats("sigma-1", <<"0", "255">>)
    /\ last.before = <<Undefined, Undefined>>
    /\ minValue = "0"
    /\ maxValue = "255"

\* C8  Per-arrival filtering: whatever came before, an arriving band-stats
\* reply is applied iff its stretch is the current one: the range afterwards
\* is the reply's when it matches (so the most recent matching reply shows)
\* and the range before the arrival when it does not.
PerArrivalFiltering ==
    BandstatsArrived =>
        <<minValue, maxValue>> =
            IF last.msg.bandstats.stretch = stretch
            THEN <<last.msg.bandstats.min, last.msg.bandstats.max>>
            ELSE last.before

\* A second matching reply replaced the range an earlier matching reply had set.
PerArrivalWitness ==
    /\ BandstatsArrived
    /\ count.reply >= 2
    /\ stretch # "custom"
    /\ last.msg.bandstats.stretch = stretch
    /\ last.before = <<"0", "255">>
    /\ <<minValue, maxValue>> = <<"10", "200">>

\* C14  Unknown inbound message: a message with neither "bandstats" nor
\* "palette" reaches no handler, raises nothing, causes no set, save_changes
\* or send, and changes no property of the view or of its editors.
UnknownMessageIgnored ==
    [][(/\ count'.reply = count.reply + 1
        /\ ~last'.msg.hasBandstats
        /\ ~last'.msg.hasPalette)
       => /\ last'.handled = <<>>
          /\ ~last'.threw
          /\ calls' = <<>>
          /\ UNCHANGED <<view, changedProperties, attrs, rasterVars>>]_vars

\* A message with neither key ran the view's callback while the raster editor
\* showed a range, which is still shown.
UnknownMessageWitness ==
    /\ last.kind = "msg"
    /\ last.runs > 0
    /\ last.msg = NoMsg
    /\ hasUpdated
    /\ last.handled = <<>>
    /\ <<minValue, maxValue>> = <<"0", "255">>

\* C15  First-match dispatch: every callback run dispatches a message that
\* carries "bandstats" to the band-stats handler only (also when it carries
\* "palette" as well), and one that carries only "palette" to the palette
\* handler only.
FirstMatchDispatch ==
    (last.kind = "msg" /\ last.runs > 0) =>
        /\ last.msg.hasBandstats =>
              /\ Len(last.handled) = last.runs
              /\ \A i \in 1..Len(last.handled) : last.handled[i] = "bandstats"
        /\ (~last.msg.hasBandstats /\ last.msg.hasPalette) =>
              /\ Len(last.handled) = last.runs
              /\ \A i \in 1..Len(last.handled) : last.handled[i] = "palette"

\* A message with both keys arrived while "custom" was selected: the band-stats
\* handler took its range and the palette is untouched.
FirstMatchWitness ==
    /\ last.kind = "msg"
    /\ last.runs = 1
    /\ hasUpdated
    /\ last.msg.hasBandstats
    /\ last.msg.hasPalette
    /\ last.handled = <<"bandstats">>
    /\ <<minValue, maxValue>> = <<"0", "255">>
    /\ palette = ""

\* C13  Reply without a target: a band-stats or palette reply that a handler of
\* the view receives while the raster editor and its palette editor do not
\* exist raises no exception and changes neither the range nor the palette.
ReplyWithoutTargetSilent ==
    (/\ last.kind = "msg"
     /\ last.runs > 0
     /\ ~hasUpdated
     /\ last.msg.hasBandstats \/ last.msg.hasPalette)
        => /\ ~last.threw
           /\ <<minValue, maxValue>> = last.before
           /\ palette = ""

\* C31: whenever the stretch is not "custom", minValue and maxValue are both
\* undefined or are the min and max of one band-stats reply that arrived
\* while the stretch was the current one and named it: a range is shown only
\* as left by such a reply, and a step that keeps the stretch keeps it.
RangeFromMatchingReply ==
    /\ [](stretch # "custom"
            => \/ minValue = Undefined /\ maxValue = Undefined
               \/ <<minValue, maxValue>> \in Ranges)
    /\ [][stretch' # "custom"
            => \/ minValue' = Undefined /\ maxValue' = Undefined
               \/ UNCHANGED <<stretch, minValue, maxValue>>
               \/ /\ last'.kind = "msg"
                  /\ last'.msg.hasBandstats
                  /\ last'.msg.bandstats.stretch = stretch'
                  /\ stretch' = stretch
                  /\ minValue' = last'.msg.bandstats.min
                  /\ maxValue' = last'.msg.bandstats.max]_vars

\* The user typed into the range while the stretch was "custom", then chose
\* "sigma-1"; the range shown is that of a reply for "sigma-1".
RangeFromReplyWitness ==
    /\ count.edit > 0
    /\ stretch = "sigma-1"
    /\ last.kind = "msg"
    /\ last.msg.bandstats.stretch = "sigma-1"
    /\ <<minValue, maxValue>> = <<"10", "200">>

\* C33: in every state, from construction on and after any stretch
\* selections, typed values and inbound messages, the two range inputs are
\* locked exactly if the stretch is not "custom".
LockedIffNotCustom == minAndMaxValuesLocked <=> stretch # "custom"

\* The user chose a computed stretch and then "custom" again: the range is
\* unlocked.
LockedWitness ==
    /\ last.kind = "stretch"
    /\ count.stretch = 2
    /\ stretch = "custom"
    /\ ~minAndMaxValuesLocked
    /\ count.reply > 0

----------------------------------------------------------------------------
(* Properties of the raster editor's commands (checked under SpecRaster,
   SpecPalette and SpecFreshness) *)

\* C16  Stretch change command: every stretch selection in the raster editor of
\* a layer editor that has a model, "custom" included, sends exactly one
\* band-stats command on that model, whose detail.stretch is the newly selected
\* stretch and whose detail.bands is selectedBands; nothing else is called and
\* no reply is awaited.
StretchChangeSendsCommand ==
    (last.kind = "stretch" /\ last.model # Undefined) =>
        calls = <<[op |-> "send", model |-> model, key |-> "band-stats",
                   value |-> stretch,
                   detail |-> [NoDetail EXCEPT !.bands = selectedBands,
                                               !.stretch = stretch]]>>

\* A second stretch selection, to "custom", was sent with the three bands the
\* user had selected, though nothing has answered the first.
StretchChangeWitness ==
    /\ last.kind = "stretch"
    /\ model = "M1"
    /\ stretch = "custom"
    /\ count.stretch = 2
    /\ count.reply = 0
    /\ selectedBands = <<"B1", "B2", "B1">>
    /\ Len(calls) = 1
    /\ calls[1].detail.bands = <<"B1", "B2", "B1">>
    /\ calls[1].detail.stretch = "custom"


\* C17  Palette reply freshness: the reply to a palette command whose colormap
\* or classes are no longer the palette editor's when it arrives does not
\* change the palette editor's palette.
StalePaletteReplyDropped ==
    [][(/\ count'.reply = count.reply + 1
        /\ last'.msg.hasPalette
        /\ \/ last'.msg.palette.colormap # colormap
           \/ last'.msg.palette.classes # classes)
       => palette' = palette]_vars

\* C30: whether the reply to a band-stats command is applied depends on its
\* stretch alone: it is applied exactly if its stretch is the raster editor's
\* stretch when it arrives, also when the bands selected then are no longer
\* the bands the command was sent for.
FreshnessKeyIsStretch ==
    (BandstatsArrived /\ last.msg.request # NoRequest)
       => <<minValue, maxValue>> =
             IF last.msg.bandstats.stretch = stretch
             THEN <<last.msg.bandstats.min, last.msg.bandstats.max>>
             ELSE last.before

\* The reply to a command sent for one band arrived after the user had
\* switched to three bands; the stretch is still the command's and the range
\* shown is the reply's.
FreshnessWitness ==
    /\ BandstatsArrived
    /\ last.msg.request # NoRequest
    /\ Len(last.msg.request.bands) = 1
    /\ Len(selectedBands) = 3
    /\ last.msg.bandstats.stretch = stretch
    /\ stretch = "sigma-1"
    /\ minValue = "10"
    /\ maxValue = "200"

\* C34: a stretch selection other than "custom" sets minValue and maxValue to
\* undefined, the selection of "custom" leaves both as they were, and either
\* leaves selectedBands, colorModel, opacity, gamma and colorRamp unchanged.
StretchChangeEffect ==
    [][count'.stretch = count.stretch + 1
       => /\ stretch' # "custom" => minValue' = Undefined /\ maxValue' = Undefined
          /\ stretch' = "custom" => UNCHANGED <<minValue, maxValue>>
          /\ UNCHANGED <<selectedBands, colorModel, opacity, gamma, colorRamp>>]_vars

\* With one band, a colour ramp and an opacity chosen and a reply's range
\* shown, the user selected "custom": the range is still the reply's.
StretchChangeEffectWitness ==
    /\ last.kind = "stretch"
    /\ stretch = "custom"
    /\ count.stretch = 2
    /\ <<minValue, maxValue>> = <<"10", "200">>
    /\ Len(selectedBands) = 1
    /\ colorRamp = "gamma"
    /\ opacity = "0.5"

\* C36: selectedBands has one entry while colorModel is "gray", three while it
\* is "rgb" and none while it is unset; a change of the colour model sets every
\* entry to bandNames[0]; a band selection keeps the number of entries.
BandCountFollowsColorModel ==
    /\ [](/\ colorModel = "gray" => Len(selectedBands) = 1
          /\ colorModel = "rgb" => Len(selectedBands) = 3
          /\ colorModel = "" => Len(selectedBands) = 0)
    /\ [][/\ last'.kind = "color-model" /\ count'.select = count.select + 1
             => \A j \in 1..Len(selectedBands') : selectedBands'[j] = FirstBand
          /\ last'.kind = "band" /\ count'.select = count.select + 1
             => Len(selectedBands') = Len(selectedBands)]_vars

\* With three bands shown, the user picked another band in one of them.
BandCountWitness ==
    /\ colorModel = "rgb"
    /\ last.kind = "band"
    /\ Len(selectedBands) = 3
    /\ \E j \in 1..3 : selectedBands[j] = "B2"
    /\ \E j \in 1..3 : selectedBands[j] = "B1"

\* C37: each change handler of a palette editor writes its own property only
\* (classes, colormap or palette) and leaves the other two as they were, and
\* then dispatches one on-palette-changed event with the three values after
\* the change, which the layer editor forwards as one palette command.
PaletteHandlerWritesOwnProperty ==
    [][count'.paletteEdit = count.paletteEdit + 1
       => /\ last'.kind = "classes"
             => classes' = last'.key /\ UNCHANGED <<colormap, palette>>
          /\ last'.kind = "colormap"
             => colormap' = last'.key /\ UNCHANGED <<classes, palette>>
          /\ last'.kind = "palette-text"
             => palette' = last'.key /\ UNCHANGED <<classes, colormap>>
          /\ model # Undefined
             => /\ Len(calls') = 1
                /\ calls'[1].key = "palette"
                /\ calls'[1].detail.colormap = colormap'
                /\ calls'[1].detail.classes = classes'
                /\ calls'[1].detail.palette = palette']_vars

\* C38: a palette reply changes the palette only when its palette value is
\* truthy, a reply whose palette value is empty or missing leaves the palette
\* as it was, and no palette reply changes colormap, classes, minValue or
\* maxValue.
PaletteReplyEffect ==
    [][(count'.reply = count.reply + 1 /\ "palette" \in Range(last'.handled))
       => /\ palette' # palette
             => /\ last'.msg.palette.palette # ""
                /\ palette' = last'.msg.palette.palette
          /\ last'.msg.palette.palette = "" => palette' = palette
          /\ UNCHANGED <<colormap, classes, minValue, maxValue>>]_vars

\* An empty palette reply was handled by an editor whose palette, classes and
\* range had been set: all of them are as before.
PaletteReplyWitness ==
    /\ last.kind = "msg"
    /\ "palette" \in Range(last.handled)
    /\ last.msg.palette.palette = ""
    /\ palette = "red, blue"
    /\ classes = "3"
    /\ minValue # Undefined

----------------------------------------------------------------------------
(* Properties of disposal (checked under SpecTeardown) *)

\* C11  Teardown quiescence: once the view has been discarded, a remote field
\* change or an inbound message changes no property of the view, of its raster
\* editor or of its palette editor.
TeardownQuiescence ==
    [][(/\ detached
        /\ \/ count'.remote = count.remote + 1
           \/ count'.reply = count.reply + 1)
       => /\ view' = view
          /\ UNCHANGED rasterVars]_vars

----------------------------------------------------------------------------
(* Properties of a raising handle (checked under SpecFault) *)

\* C12  Error isolation within a batch: when model.get raises for a field
\* during attach, or model.set raises for a field during an update batch, no
\* exception leaves the batch, every other mapped field is still synchronised
\* and an update batch still ends with save_changes.
ErrorIsolation ==
    /\ last.kind \in {"attach", "update"} => ~last.threw
    /\ (last.kind = "attach" /\ last.key # "") =>
          \A i \in 1..Len(KeyMap) :
              (KeyMap[i][2] # Null /\ KeyMap[i][1] # last.key)
                  => view[KeyMap[i][2]] = attrs[model][KeyMap[i][1]]
    /\ (last.kind = "update" /\ last.model # Undefined) =>
          /\ Len(calls) >= 1
          /\ calls[Len(calls)].op = "flush"
          /\ \A p \in Range(last.batch) :
                Inverse[p] # last.key => \E i \in SetCalls : calls[i].key = Inverse[p]

----------------------------------------------------------------------------
(* Properties of the inspector's tree (checked under SpecTree) *)

\* C21: a click on a tree node's button negates its expanded flag, so a second
\* click on the same node restores the flag it had before the first, whether
\* the node started expanded or collapsed; and every element of the tree can
\* be clicked in every state.
ToggleInvolution ==
    /\ [](\A p \in DOMAIN treeExpanded : ENABLED ToggleExpand(p))
    /\ [][last'.kind = "toggle"
          => LET p == lastToggle'.path
             IN  /\ p \in DOMAIN treeExpanded
                 /\ p \in DOMAIN treeExpanded'
                 /\ treeExpanded'[p] = ~treeExpanded[p]
                 /\ (last.kind = "toggle" /\ lastToggle.path = p)
                       => treeExpanded'[p] = lastToggle.before]_vars

\* Two clicks in a row on the first child, which was expanded before them and
\* is expanded again.
ToggleInvolutionWitness ==
    /\ last.kind = "toggle"
    /\ lastToggle.again
    /\ lastToggle.path = <<1>>
    /\ ~lastToggle.before
    /\ treeExpanded[<<1>>]

\* C22: a click on a node changes the expanded flag of that node only: the
\* elements that are not below it keep theirs, and when a node is collapsed
\* and expanded again, every node that was shown below it before is shown
\* again with the flag it had.
ToggleIsLocal ==
    [][last'.kind = "toggle"
       => LET p == lastToggle'.path
          IN  /\ \A q \in DOMAIN treeExpanded :
                    (q # p /\ ~Below(p, q))
                       => q \in DOMAIN treeExpanded' /\ treeExpanded'[q] = treeExpanded[q]
              /\ (lastToggle'.again /\ treeExpanded'[p])
                    => \A q \in DOMAIN lastToggle.below :
                          /\ q \in DOMAIN treeExpanded'
                          /\ treeExpanded'[q] = lastToggle.below[q]]_vars

\* C23: whenever an element of the tree is given a node that has an `expanded`
\* key, when it is created or when its node is replaced, the element's flag
\* afterwards is that key's value (expanded for true, collapsed for false and
\* for undefined); a newly created element whose node has no such key is
\* collapsed.
ExplicitFlagWins ==
    [][last'.kind \in {"node", "toggle"}
       => \A p \in DOMAIN treeExpanded' :
             LET given == last'.kind = "node" \/ p \notin DOMAIN treeExpanded
                 created == \/ p \notin DOMAIN treeExpanded
                            \/ last'.kind = "node" /\ ~Kept(nodeData', treeExpanded, p)
                 flag == nodeData'.flag[p]
             IN  /\ (given /\ flag # "none") => treeExpanded'[p] = (flag = "true")
                 /\ (created /\ flag = "none") => ~treeExpanded'[p]]_vars

\* A pushed tree whose root says expanded: true and whose first child says
\* expanded: false: the root is expanded and the child is collapsed.
ExplicitFlagWitness ==
    /\ last.kind = "node"
    /\ nodeData.flag[<<>>] = "true"
    /\ <<1>> \in DOMAIN treeExpanded
    /\ nodeData.flag[<<1>>] = "false"
    /\ treeExpanded[<<>>]
    /\ ~treeExpanded[<<1>>]

\* C24: when the kernel pushes a new value for the tree, every node whose
\* expanded flag the user had set by a click and that is still there at the
\* same path of the new value (under a root that is still shown) keeps that
\* flag.
ExpansionSurvivesReplacement ==
    [][(last'.kind = "node" /\ HasChildren(nodeData', <<>>))
       => \A p \in touched :
             p \in nodeData'.paths
                => /\ p \in DOMAIN treeExpanded'
                   /\ treeExpanded'[p] = treeExpanded[p]]_vars

\* C25: in every state the elements of an element's children exist exactly if
\* the element is expanded and its node has at least one child; hence an
\* element exists only if every element above it exists and is expanded, and
\* nothing is realised below a collapsed node.
LazyRealisation ==
    \A p \in DOMAIN treeExpanded :
        /\ p \in nodeData.paths
        /\ {c \in DOMAIN treeExpanded : Len(c) = Len(p) + 1 /\ Parent(c) = p}
              = IF treeExpanded[p] /\ Children(nodeData, p) # {}
                THEN Children(nodeData, p) ELSE {}
        /\ \A i \in 0..(Len(p) - 1) :
              /\ SubSeq(p, 1, i) \in DOMAIN treeExpanded
              /\ treeExpanded[SubSeq(p, 1, i)]

\* After a click, the root is expanded and shows its two children; the first
\* child has a child of its own and is collapsed, so that grandchild has no
\* element.
LazyRealisationWitness ==
    /\ last.kind = "toggle"
    /\ <<1, 1>> \in nodeData.paths
    /\ DOMAIN treeExpanded = {<<>>, <<1>>, <<2>>}
    /\ treeExpanded[<<>>]
    /\ ~treeExpanded[<<1>>]

----------------------------------------------------------------------------
(* Properties of the order of remote events (checked under SpecOrder) *)

\* The kernel's change of attribute k of model m to v, applied to the working
\* state s: Backbone stores the value and, if it differs, runs the callbacks
\* registered for "change:k".
AfterRemoteChange(s, m, k, v) ==
    IF s.attrs[m][k] = v THEN s
    ELSE Trigger([s EXCEPT !.attrs[m][k] = v], widget, m, k, listeners[m][k])

MirroredKeys == {k \in ModelKeys(widget) : WidgetKeyOf(widget, k) # Null}

DistinctPairs(S) == {P \in SUBSET S : Cardinality(P) = 2}

\* C27: for changes the kernel makes to two distinct mirrored attributes, the
\* view's properties (and the set of properties pending an update) after both
\* change callbacks ran are the same whichever change came first; and a
\* band-stats reply delivered in between changes none of what the callbacks
\* read or write, as a remote change alters none of the raster editor's state.
OrderIndependence ==
    /\ [](\A ma \in Models, mb \in Models, ab \in DistinctPairs(MirroredKeys) :
              \A va \in Val, vb \in Val :
                 LET a == CHOOSE k \in ab : TRUE
                     b == CHOOSE k \in ab : k # a
                     s0 == Work(attrs, view, changedProperties, origin)
                     sab == AfterRemoteChange(AfterRemoteChange(s0, ma, a, va), mb, b, vb)
                     sba == AfterRemoteChange(AfterRemoteChange(s0, mb, b, vb), ma, a, va)
                 IN  /\ sab.view = sba.view
                     /\ sab.attrs = sba.attrs
                     /\ Range(sab.changed) = Range(sba.changed))
    /\ [][/\ last'.kind = "msg"
             => UNCHANGED <<view, changedProperties, attrs, listeners, stretch>>
          /\ last'.kind = "remote"
             => UNCHANGED <<rasterVars, listeners>>]_vars

\* The kernel changed the title and the band names of the attached model, a
\* matching band-stats reply arrived after them, and the view shows all three.
OrderIndependenceWitness ==
    /\ last.kind = "msg"
    /\ count.remote = 2
    /\ model = "M2"
    /\ view["title"] = "v1"
    /\ view["bandNames"] = "v1"
    /\ stretch = "custom"
    /\ minValue = "0"

----------------------------------------------------------------------------
(* Properties of the child views (checked under SpecChildren) *)

\* C28: whenever no updateChildren call is under way, whatever the order in
\* which the calls started by render() and by the changes of "children"
\* completed, the views in the container are those of the current value of the
\* model's "children", never those of an earlier value.
LatestChildrenWin ==
    (watching # Undefined /\ pending = <<>>)
       => container = ChildViews(attrs[watching]["children"])

----------------------------------------------------------------------------
(* Properties of one completion of updateChildren (checked under
   SpecSnapshots) *)

\* C32: the container's child list is at every point the views of one single
\* value read from the model's "children", in the order of that value's ids,
\* and every step either leaves the list as it was or replaces it as a whole
\* by the views of one value read by a call under way; the views of two values
\* are never mixed.
SnapshotAtomicity ==
    /\ [](\E v \in Snapshots :
            /\ Len(container) = Len(ChildIds(v))
            /\ \A i \in 1..Len(container) : container[i] = "view of " \o ChildIds(v)[i])
    /\ [][\/ container' = container
          \/ \E i \in 1..Len(pending) : container' = ChildViews(pending[i])]_vars

\* The views of <<c2, c1>> replaced those shown before while a call that read
\* <<c1, c2>> is still under way.
SnapshotWitness ==
    /\ last.kind = "children shown"
    /\ container = <<"view of c2", "view of c1">>
    /\ Len(pending) > 0
    /\ pending[1] = "v1"

----------------------------------------------------------------------------
(* Properties of a view without a model (checked under SpecUnbound) *)

\* C35: while no model is attached, a click on the close button, a request
\* for band statistics or for a palette and a batch of changed properties
\* issue no send, no set and no save_changes, raise no exception, and leave no
\* command under way and no model attribute changed.
UnboundIsSilent ==
    /\ [](model = Undefined => calls = <<>> /\ ~last.threw /\ inflight = {})
    /\ [][model' = Undefined => attrs' = attrs]_vars

\* With no model attached, the first batch was handled, the stretch and the
\* palette were changed, and the close button was clicked.
UnboundWitness ==
    /\ model = Undefined
    /\ widget = "LayerEditor"
    /\ hasUpdated
    /\ count.stretch > 0
    /\ count.paletteEdit > 0
    /\ last.kind = "close"

====
